---- MODULE Spec2Model ----
(***************************************************************************)
(* TeaFiles.Py: the TeaFile facade (create / openread / openwrite, read,   *)
(* write, seekitem, seekend, items, itemcount, flush, close), the item     *)
(* layout, and the header codec, over one file path.                       *)
(*                                                                         *)
(* Texts are sequences of character codes (ASCII, so their UTF-8 encoding  *)
(* is the sequence itself), a file is a sequence of bytes 0..255.          *)
(* A python value that is an int or a clockwise.DateTime is the record     *)
(* [dt |-> is it a DateTime, n |-> the int, or the DateTime's ticks].      *)
(***************************************************************************)
EXTENDS Integers, Sequences, FiniteSets, TLC

\* ------------------------------------------------------------------ bounds
\* the file is never made longer than MaxItems items; the item indexes passed to
\* seekitem and items range up to MaxItems
MaxItems == 2

\* ------------------------------------------------------------ sequences
RECURSIVE Concat(_)
Concat(ss) == IF ss = <<>> THEN <<>> ELSE Head(ss) \o Concat(Tail(ss))

Zeros(n) == [k \in 1..n |-> 0]

\* bytes[from+1 .. from+n] clipped at the end of the sequence (file.read semantics)
Slice(bytes, from, n) ==
  LET m == IF from >= Len(bytes) THEN 0
           ELSE IF from + n > Len(bytes) THEN Len(bytes) - from ELSE n
  IN SubSeq(bytes, from + 1, from + m)

\* the content after writing data at offset at: a gap past the end reads as zeros
Splice(bytes, at, data) ==
  LET gap == IF at > Len(bytes) THEN Zeros(at - Len(bytes)) ELSE <<>>
      kept == IF at > Len(bytes) THEN bytes ELSE SubSeq(bytes, 1, at)
  IN kept \o gap \o data \o SubSeq(bytes, at + Len(data) + 1, Len(bytes))

\* ---------------------------------------------------------- struct codec
\* struct.pack of an integer into w bytes, little-endian two's complement
RECURSIVE PackInt(_, _)
PackInt(n, w) == IF w = 0 THEN <<>> ELSE <<n % 256>> \o PackInt(n \div 256, w - 1)

\* the unsigned value of a little-endian byte run
RECURSIVE UnpackUnsigned(_)
UnpackUnsigned(bytes) ==
  IF bytes = <<>> THEN 0 ELSE Head(bytes) + 256 * UnpackUnsigned(Tail(bytes))

\* the signed value of a little-endian byte run; sign extension bytes are dropped
\* first, so that an 8 byte run holding a small value stays within the integers
RECURSIVE UnpackSigned(_)
UnpackSigned(bytes) ==
  LET n == Len(bytes) IN
  IF n = 0 THEN 0
  ELSE IF n > 1 /\ bytes[n] = 0 /\ bytes[n - 1] < 128 THEN UnpackSigned(SubSeq(bytes, 1, n - 1))
  ELSE IF n > 1 /\ bytes[n] = 255 /\ bytes[n - 1] >= 128 THEN UnpackSigned(SubSeq(bytes, 1, n - 1))
  ELSE IF n = 1 THEN (IF bytes[1] >= 128 THEN bytes[1] - 256 ELSE bytes[1])
  ELSE Head(bytes) + 256 * UnpackSigned(Tail(bytes))

\* --------------------------------------------------------------- FieldType
FormatNumbers == <<1, 2, 3, 4, 5, 6, 7, 8, 9, 10>>
typesizes == <<1, 2, 4, 8, 1, 2, 4, 8, 4, 8>>
\*                    b    h    i    q   B   H   I   Q    f    d
formatCharacters == <<98, 104, 105, 113, 66, 72, 73, 81, 102, 100>>

getsize(fieldtype) == typesizes[fieldtype]

\* 0 stands for the ValueError("Invalid format character")
getfromformatcharacter(c) ==
  IF \E i \in 1..10 : formatCharacters[i] = c
  THEN FormatNumbers[CHOOSE i \in 1..10 : formatCharacters[i] = c]
  ELSE 0

getformatcharacter(fieldtype) == formatCharacters[fieldtype]

IsSignedType(fieldtype) == fieldtype \in {1, 2, 3, 4}
IsIntegerType(fieldtype) == fieldtype \in 1..8

\* -------------------------------------------------------- struct.Struct
\* A struct is [types: the field types in order, pad: trailing "<pad>x" bytes,
\* order: "@" native (no prefix, or "@"), "<" standard little-endian ("<", and "="
\* on this machine), ">" standard big-endian (">", "!")].
\* Native alignment: every field starts at the next multiple of its size.
AlignUp(n, a) == IF n % a = 0 THEN n ELSE n + (a - (n % a))

RECURSIVE StructOffsetsFrom(_, _)
StructOffsetsFrom(types, at) ==
  IF types = <<>> THEN <<>>
  ELSE LET o == AlignUp(at, getsize(Head(types)))
       IN <<o>> \o StructOffsetsFrom(Tail(types), o + getsize(Head(types)))

StructOffsets(types) == StructOffsetsFrom(types, 0)

\* standard layout: the fields follow each other without gaps
RECURSIVE PackedOffsetsFrom(_, _)
PackedOffsetsFrom(types, at) ==
  IF types = <<>> THEN <<>>
  ELSE <<at>> \o PackedOffsetsFrom(Tail(types), at + getsize(Head(types)))

\* where the struct keeps its fields
FieldOffsets(st) ==
  IF st.order = "@" THEN StructOffsets(st.types) ELSE PackedOffsetsFrom(st.types, 0)

Struct(types, pad, order) == [types |-> types, pad |-> pad, order |-> order]

StructSize(st) ==
  IF st.types = <<>> THEN st.pad
  ELSE LET n == Len(st.types)
       IN FieldOffsets(st)[n] + getsize(st.types[n]) + st.pad

\* a field's bytes in the struct's byte order, from and to little-endian
ByteOrdered(st, run) ==
  IF st.order = ">" THEN [k \in 1..Len(run) |-> run[Len(run) + 1 - k]] ELSE run

\* whether struct.pack accepts the int n for the field type (else struct.error)
InRange(fieldtype, n) ==
  LET w == getsize(fieldtype) IN
  IF w = 8 THEN IsSignedType(fieldtype) \/ n >= 0
  ELSE IF w = 4 THEN IsSignedType(fieldtype) \/ n >= 0
  ELSE IF IsSignedType(fieldtype)
       THEN n >= -(IF w = 1 THEN 128 ELSE 32768) /\ n < (IF w = 1 THEN 128 ELSE 32768)
       ELSE n >= 0 /\ n < (IF w = 1 THEN 256 ELSE 65536)

\* itemstruct.pack(*values): the fields at their aligned offsets, gaps and the
\* trailing pad zero-filled
StructPack(st, ints) ==
  LET offs == FieldOffsets(st)
      size == StructSize(st)
      FieldAt(k) == CHOOSE i \in 1..Len(st.types) :
                      k > offs[i] /\ k <= offs[i] + getsize(st.types[i])
  IN [k \in 1..size |->
        IF \E i \in 1..Len(st.types) : k > offs[i] /\ k <= offs[i] + getsize(st.types[i])
        THEN ByteOrdered(st, PackInt(ints[FieldAt(k)],
                                     getsize(st.types[FieldAt(k)])))[k - offs[FieldAt(k)]]
        ELSE 0]

\* a changed unpack: every field is taken as unsigned
StructUnpack_unsigned(st, bytes) ==
  LET offs == FieldOffsets(st)
  IN [i \in 1..Len(st.types) |->
        UnpackUnsigned(ByteOrdered(st, Slice(bytes, offs[i], getsize(st.types[i]))))]

\* itemstruct.unpack(bytes), for bytes of exactly the struct's size
StructUnpack(st, bytes) ==
  LET offs == FieldOffsets(st)
  IN [i \in 1..Len(st.types) |->
        LET run == ByteOrdered(st, Slice(bytes, offs[i], getsize(st.types[i])))
        IN IF IsSignedType(st.types[i]) THEN UnpackSigned(run) ELSE UnpackUnsigned(run)]

\* the byte pattern of FieldType._magicValues[fieldtype] as struct.pack lays it out
magicBytes(fieldtype) ==
  CASE fieldtype = 1 -> <<113>>
    [] fieldtype = 2 -> <<114, 113>>
    [] fieldtype = 3 -> <<116, 115, 114, 113>>
    [] fieldtype = 4 -> <<120, 119, 118, 117, 116, 115, 114, 113>>
    [] fieldtype = 5 -> <<161>>
    [] fieldtype = 6 -> <<162, 161>>
    [] fieldtype = 7 -> <<164, 163, 162, 161>>
    [] fieldtype = 8 -> <<168, 167, 166, 165, 164, 163, 162, 161>>
    [] fieldtype = 9 -> <<174, 71, 129, 63>>
    [] fieldtype = 10 -> <<143, 194, 245, 40, 92, 143, 8, 64>>

\* --------------------------------------------------------- ItemDescription
\* testitem[f.index] == magic: whether the item struct unpacks the magic value for
\* field i from a zeroed buffer that holds the magic value, packed in native order,
\* at pos. An integer or a double is the magic value when its bytes are; what a
\* Float field unpacks is a float32 value, which 1.01 is not
unpacksmagic(st, i, pos) ==
  /\ st.types[i] # 9
  /\ ByteOrdered(st, Slice(Splice(Zeros(StructSize(st)), pos, magicBytes(st.types[i])),
                           FieldOffsets(st)[i], getsize(st.types[i])))
       = magicBytes(st.types[i])

\* _analyzefieldoffsets for field i: the first position at which the magic value,
\* packed into a zeroed buffer, is what the item struct unpacks for that field
\* (-1: no position found, the offset stays None)
analyzefieldoffset(st, i) ==
  LET hits == {pos \in 0..(StructSize(st) - getsize(st.types[i])) : unpacksmagic(st, i, pos)}
  IN IF hits = {} THEN -1 ELSE CHOOSE pos \in hits : \A q \in hits : pos <= q

Max(S) == CHOOSE x \in S : \A y \in S : y <= x

\* ItemDescription._adjustitemstructforpadding: the trailing padding that makes the
\* item size a multiple of the largest field size
itempadding(st) ==
  LET itemalignment == Max({getsize(st.types[i]) : i \in 1..Len(st.types)})
      rawsize == StructSize(st)
      p == itemalignment - (rawsize % itemalignment)
  IN IF p = itemalignment THEN 0 ELSE p

\* self.itemsize = rawsize + itempadding
paddeditemsize(st) == StructSize(st) + itempadding(st)

\* the item struct is built again, from the format without its byte order character
\* and with "<itempadding>x" added, only when there is padding
adjustitemstructforpadding(st) ==
  IF itempadding(st) = 0 THEN st ELSE Struct(st.types, itempadding(st), "@")

\* a text namedtuple accepts as a type name (fields also must not start with "_")
IsAlnum(c) == (c >= 48 /\ c <= 57) \/ (c >= 65 /\ c <= 90) \/ (c >= 97 /\ c <= 122) \/ c = 95
IsIdentifier(s) ==
  /\ s # <<>>
  /\ \A k \in 1..Len(s) : IsAlnum(s[k])
  /\ ~(s[1] >= 48 /\ s[1] <= 57)

namedtupleAccepts(typename, fieldnames) ==
  /\ IsIdentifier(typename)
  /\ \A i \in 1..Len(fieldnames) : IsIdentifier(fieldnames[i]) /\ fieldnames[i][1] # 95
  /\ \A i, j \in 1..Len(fieldnames) : fieldnames[i] = fieldnames[j] => i = j

\* the format strings struct.Struct accepts among those over the characters
\* modelled: an optional byte order character, then codes, each with an optional
\* repeat count; x (pad byte) and s (char[]) are codes of struct that are no
\* field type
IsDigit(c) == c >= 48 /\ c <= 57
IsByteOrderChar(c) == c \in {64, 60, 62, 61, 33}
\*                                                  x   c   s    p    ?   l    L   P
IsStructCode(c) == getfromformatcharacter(c) # 0 \/ c \in {120, 99, 115, 112, 63, 108, 76, 80}
structAccepts(fmt) ==
  /\ \A k \in 1..Len(fmt) :
       \/ IsStructCode(fmt[k])
       \/ IsDigit(fmt[k]) /\ k < Len(fmt)
       \/ IsByteOrderChar(fmt[k]) /\ k = 1
  /\ \A k \in 1..Len(fmt) : IsDigit(fmt[k]) /\ k < Len(fmt) => ~IsByteOrderChar(fmt[k + 1])

\* the byte order of struct.Struct(fmt), from the first character of the format
structorder(fmt) ==
  IF fmt # <<>> /\ fmt[1] \in {60, 61} THEN "<"
  ELSE IF fmt # <<>> /\ fmt[1] \in {62, 33} THEN ">"
  ELSE "@"

RepeatQ(n) == [k \in 1..n |-> 113]

\* what ItemDescription.create(None, fieldnames, fieldformat) raises, "" for
\* nothing, in the order of its statements: namedtuple on the names as given,
\* struct.Struct on the format as given, the test for digits, the comparison of the
\* lengths after the byte order characters are taken out, and
\* FieldType.getfromformatcharacter on every character left
ItemDescription_raises(fieldnames, fieldformat0) ==
  LET itemname == [k \in 1..Len(fieldnames) |-> fieldnames[k][1]]
      fieldformat1 == IF fieldformat0 = <<>> THEN RepeatQ(Len(fieldnames)) ELSE fieldformat0
      fieldformat == SelectSeq(fieldformat1, LAMBDA c : ~IsByteOrderChar(c))
  IN IF ~namedtupleAccepts(itemname, fieldnames) THEN "ValueError"
     ELSE IF ~structAccepts(fieldformat1) THEN "struct.error"
     ELSE IF \E k \in 1..Len(fieldformat1) : IsDigit(fieldformat1[k]) THEN "ValueError"
     ELSE IF Len(fieldformat) # Len(fieldnames) THEN "Exception"
     ELSE IF \E k \in 1..Len(fieldformat) : getfromformatcharacter(fieldformat[k]) = 0
     THEN "ValueError"
     ELSE ""

\* ItemDescription.create(None, fieldnames, fieldformat); ok = FALSE: it raised.
\* The offsets are those of the struct built from the format as given, the item
\* size is that struct's size and the padding
ItemDescription_create(fieldnames, fieldformat0) ==
  LET itemname == [k \in 1..Len(fieldnames) |-> fieldnames[k][1]]
      fieldformat1 == IF fieldformat0 = <<>> THEN RepeatQ(Len(fieldnames)) ELSE fieldformat0
      fieldformat == SelectSeq(fieldformat1, LAMBDA c : ~IsByteOrderChar(c))
      types == [k \in 1..Len(fieldformat) |-> getfromformatcharacter(fieldformat[k])]
      itemstruct == Struct(types, 0, structorder(fieldformat1))
      failed == [ok |-> FALSE, itemsize |-> 0, itemname |-> itemname, fields |-> <<>>,
                 itemstruct |-> Struct(<<>>, 0, "@"), fieldnames |-> fieldnames,
                 hasitemtype |-> FALSE]
  IN IF ItemDescription_raises(fieldnames, fieldformat0) # "" THEN failed
     ELSE [ok |-> TRUE,
           itemsize |-> paddeditemsize(itemstruct),
           itemname |-> itemname,
           fields |-> [i \in 1..Len(fieldnames) |->
                         [name |-> fieldnames[i], index |-> i, fieldtype |-> types[i],
                          offset |-> analyzefieldoffset(itemstruct, i),
                          istime |-> FALSE, iseventtime |-> FALSE]],
           itemstruct |-> adjustitemstructforpadding(itemstruct),
           fieldnames |-> fieldnames,
           hasitemtype |-> TRUE]

\* --------------------------------------------------- _FormattedWriter
writeint32(v) == PackInt(v, 4)
writeint64(v) == PackInt(v, 8)
writetext(text) == writeint32(Len(text)) \o text

\* A name/value entry is [key, kind, n, text] with kind of _ValueKind: 1 Int32 (n
\* the int), 2 Double (text the 8 bytes struct packs the float into), 3 Text (text
\* the text), 4 Uuid (text its 16 bytes); kind 0 stands for a value of any other
\* python type.
\* _getnamevaluekind tests isinstance(value, uuid) with the module uuid, which
\* raises TypeError for every value that is no int, float or string. The ints
\* of the model are int32
writenamevalue_raises(nv) == IF nv.kind \notin {1, 2, 3} THEN "TypeError" ELSE ""

writenamevalue(nv) ==
  writetext(nv.key) \o writeint32(nv.kind)
    \o (IF nv.kind = 1 THEN writeint32(nv.n)
        ELSE IF nv.kind = 2 THEN nv.text
        ELSE writetext(nv.text))

\* --------------------------------------------------- section formatters
ItemSectionId == 10
TimeSectionId == 64
ContentSectionId == 128
NameValueSectionId == 129

ItemSection_write(id) ==
  writeint32(id.itemsize) \o writetext(id.itemname) \o writeint32(Len(id.fields))
    \o Concat([i \in 1..Len(id.fields) |->
                 writeint32(id.fields[i].fieldtype) \o writeint32(id.fields[i].offset)
                   \o writetext(id.fields[i].name)])

\* a changed _ContentSectionFormatter.write: an empty description is written too
ContentSection_write_always(cd) == writetext(cd)

ContentSection_write(cd) == IF cd # <<>> THEN writetext(cd) ELSE <<>>

NameValueSection_write(nvs) ==
  IF nvs = <<>> THEN <<>>
  ELSE writeint32(Len(nvs)) \o Concat([i \in 1..Len(nvs) |-> writenamevalue(nvs[i])])

Lower(c) == IF c >= 65 /\ c <= 90 THEN c + 32 ELSE c
LowerText(s) == [k \in 1..Len(s) |-> Lower(s[k])]
\*           t    i    m    e
TimeName == <<116, 105, 109, 101>>

JavaEpoch == 719162
JavaTicksPerDay == 86400000

TimeSection_write(id) ==
  LET timefields == SelectSeq(id.fields, LAMBDA f : LowerText(f.name) = TimeName)
  IN writeint64(JavaEpoch) \o writeint64(JavaTicksPerDay) \o writeint32(Len(timefields))
       \o Concat([i \in 1..Len(timefields) |-> writeint32(timefields[i].offset)])

\* --------------------------------------------------------- _HeaderManager
BOM == <<0, 5, 8, 2, 4, 10, 14, 13>>
HeaderPrefixSize == 32

\* the formatters in the order of _HeaderManager.sectionformatters
SectionPayloads(d) ==
  << [id |-> ItemSectionId, payload |-> ItemSection_write(d.itemdescription)],
     [id |-> ContentSectionId, payload |-> ContentSection_write(d.contentdescription)],
     [id |-> NameValueSectionId, payload |-> NameValueSection_write(d.namevalues)],
     [id |-> TimeSectionId, payload |-> TimeSection_write(d.itemdescription)] >>

\* a changed createsections: no padding behind the sections
createsections_unpadded(d) ==
  LET written == SelectSeq(SectionPayloads(d), LAMBDA s : Len(s.payload) > 0)
      sections == Concat([i \in 1..Len(written) |->
                    writeint32(written[i].id) \o writeint32(Len(written[i].payload))
                      \o written[i].payload])
  IN [bytes |-> sections,
      sectioncount |-> Len(written),
      itemareastart |-> HeaderPrefixSize + Len(sections)]

\* createsections: [bytes, sectioncount, itemareastart]
createsections(d) ==
  LET written == SelectSeq(SectionPayloads(d), LAMBDA s : Len(s.payload) > 0)
      sections == Concat([i \in 1..Len(written) |->
                    writeint32(written[i].id) \o writeint32(Len(written[i].payload))
                      \o written[i].payload])
      pos == HeaderPrefixSize + Len(sections)
      paddingbytes == IF 8 - (pos % 8) = 8 THEN 0 ELSE 8 - (pos % 8)
  IN [bytes |-> sections \o Zeros(paddingbytes),
      sectioncount |-> Len(written),
      itemareastart |-> pos + paddingbytes]

\* what writeheader raises, "" for nothing: createsections runs the formatters in
\* their order; writeint32(f.offset) raises struct.error for an offset that is None
writeheader_raises(d) ==
  IF \E i \in 1..Len(d.itemdescription.fields) : d.itemdescription.fields[i].offset = -1
  THEN "struct.error"
  ELSE IF \E i \in 1..Len(d.namevalues) : writenamevalue_raises(d.namevalues[i]) # ""
  THEN "TypeError"
  ELSE ""

\* writeheader: [bytes: what is written to the file, itemareastart, itemareaend]
writeheader(d) ==
  LET cs == createsections(d)
  IN [bytes |-> BOM \o writeint64(cs.itemareastart) \o writeint64(0)
                  \o writeint64(cs.sectioncount) \o cs.bytes,
      itemareastart |-> cs.itemareastart,
      itemareaend |-> 0]

\* --------------------------------------------------- _FormattedReader
\* Every read takes the file's bytes and a position and gives [ok, v, pos, err]:
\* ok = FALSE stands for the exception the code raises at that point, err is its
\* class ("" for none). The steps of a method are operators that take what the
\* steps before them read.
Min(a, b) == IF a < b THEN a ELSE b

\* struct.unpack on the bytes file.read(w) gave: it raises on a short read
unpackint(run, pos, w) ==
  [ok |-> Len(run) = w,
   v |-> IF Len(run) = w THEN UnpackSigned(run) ELSE 0,
   pos |-> pos + Len(run),
   err |-> IF Len(run) = w THEN "" ELSE "struct.error"]

\* _FileIO.readint32 / readint64
readint(bytes, pos, w) == unpackint(Slice(bytes, pos, w), pos, w)

readint32(bytes, pos) == readint(bytes, pos, 4)
readint64(bytes, pos) == readint(bytes, pos, 8)

\* what file.read gave: the bytes and the position behind them
bytesread(run, pos) == [ok |-> TRUE, v |-> run, pos |-> pos + Len(run), err |-> ""]

\* _FileIO.readbytes(n) is file.read(n): short at the end of the file without an
\* error, and everything up to the end of the file for a negative n
readbytes(bytes, pos, n) ==
  bytesread(IF n < 0 THEN Slice(bytes, pos, Len(bytes)) ELSE Slice(bytes, pos, n), pos)

\* decode("utf8"), which raises on a byte that is not ASCII (multi-byte sequences
\* are not modelled)
decodeutf8(run) ==
  [ok |-> \A k \in 1..Len(run.v) : run.v[k] < 128, v |-> run.v, pos |-> run.pos,
   err |-> IF \A k \in 1..Len(run.v) : run.v[k] < 128 THEN "" ELSE "UnicodeDecodeError"]

\* readbytes_lengthprefixed and the decode of readtext, given the length prefix n
readbytes_lengthprefixed(bytes, n) ==
  IF ~n.ok THEN [ok |-> FALSE, v |-> <<>>, pos |-> n.pos, err |-> n.err]
  ELSE decodeutf8(readbytes(bytes, n.pos, n.v))

\* readtext: the length prefix, the bytes, then decode("utf8")
readtext(bytes, pos) == readbytes_lengthprefixed(bytes, readint32(bytes, pos))

\* readnamevalue: [ok, v: the entry, pos, err]; a kind other than 1..4 leaves
\* `value` unbound and raises; struct.unpack raises on a double cut short and
\* uuid.UUID on fewer than 16 bytes
NoNameValue == [key |-> <<>>, kind |-> 0, n |-> 0, text |-> <<>>]

namevalue_int32(name, value) ==
  [ok |-> value.ok, v |-> [key |-> name.v, kind |-> 1, n |-> value.v, text |-> <<>>],
   pos |-> value.pos, err |-> value.err]

namevalue_text(name, value) ==
  [ok |-> value.ok, v |-> [key |-> name.v, kind |-> 3, n |-> 0, text |-> value.v],
   pos |-> value.pos, err |-> value.err]

\* readdouble and readuuid on the w bytes file.read gave
namevalue_bytes(name, kind, run, w) ==
  [ok |-> Len(run.v) = w,
   v |-> [key |-> name.v, kind |-> kind, n |-> 0, text |-> run.v],
   pos |-> run.pos,
   err |-> IF Len(run.v) = w THEN "" ELSE IF kind = 2 THEN "struct.error" ELSE "ValueError"]

readnamevalue_value(bytes, name, kind) ==
  IF ~name.ok THEN [ok |-> FALSE, v |-> NoNameValue, pos |-> name.pos, err |-> name.err]
  ELSE IF ~kind.ok THEN [ok |-> FALSE, v |-> NoNameValue, pos |-> kind.pos, err |-> kind.err]
  ELSE IF kind.v = 1 THEN namevalue_int32(name, readint32(bytes, kind.pos))
  ELSE IF kind.v = 2 THEN namevalue_bytes(name, 2, readbytes(bytes, kind.pos, 8), 8)
  ELSE IF kind.v = 3 THEN namevalue_text(name, readtext(bytes, kind.pos))
  ELSE IF kind.v = 4 THEN namevalue_bytes(name, 4, readbytes(bytes, kind.pos, 16), 16)
  ELSE [ok |-> FALSE, v |-> NoNameValue, pos |-> kind.pos, err |-> "UnboundLocalError"]

readnamevalue_kind(bytes, name) ==
  readnamevalue_value(bytes, name, readint32(bytes, name.pos))

readnamevalue(bytes, pos) == readnamevalue_kind(bytes, readtext(bytes, pos))

\* ------------------------------------------- ItemDescription on open
getsafename(name) == SelectSeq(name, IsAlnum)

NoItemDescription ==
  [ok |-> FALSE, itemsize |-> 0, itemname |-> <<>>, fields |-> <<>>,
   itemstruct |-> Struct(<<>>, 0, "@"), fieldnames |-> <<>>, hasitemtype |-> FALSE]

\* the item description setupfromfields leaves: the item size is the size of the
\* struct built from the field types
setupfromfields_struct(itemname, fields, fieldnames, itemstruct) ==
  [ok |-> TRUE,
   itemsize |-> StructSize(itemstruct),
   itemname |-> itemname,
   fields |-> fields,
   itemstruct |-> itemstruct,
   fieldnames |-> fieldnames,
   hasitemtype |-> TRUE]

setupfromfields_names(itemname, fields, fieldnames, types) ==
  IF \E i \in 1..Len(fields) : fields[i].fieldtype \notin 1..10 THEN NoItemDescription
  ELSE IF ~namedtupleAccepts(getsafename(itemname), fieldnames) THEN NoItemDescription
  ELSE IF fields = <<>> THEN NoItemDescription
  ELSE setupfromfields_struct(itemname, fields, fieldnames,
                              adjustitemstructforpadding(Struct(types, 0, "@")))

\* setupfromfields on the fields read from the file: the struct and the item size are
\* built again from the field types; ok = FALSE: getsize, namedtuple or max() raised
setupfromfields(itemname, fields) ==
  setupfromfields_names(itemname, fields,
                        [i \in 1..Len(fields) |-> getsafename(fields[i].name)],
                        [i \in 1..Len(fields) |-> fields[i].fieldtype])

\* the first exception among the steps of a method, in their order
FirstError(errs) ==
  IF \E i \in 1..Len(errs) : errs[i] # ""
  THEN errs[CHOOSE i \in 1..Len(errs) : errs[i] # "" /\ \A j \in 1..(i - 1) : errs[j] = ""]
  ELSE ""

\* the loop of _ItemSectionFormatter.read over the fields: [ok, v: fields, pos, err]
RECURSIVE readfields(_, _, _, _)

readfields_append(i, fieldtype, offset, name, rest) ==
  IF ~fieldtype.ok \/ ~offset.ok \/ ~name.ok
  THEN [ok |-> FALSE, v |-> <<>>, pos |-> name.pos,
        err |-> FirstError(<<fieldtype.err, offset.err, name.err>>)]
  ELSE [ok |-> rest.ok,
        v |-> << [name |-> name.v, index |-> i, fieldtype |-> fieldtype.v,
                  offset |-> offset.v, istime |-> FALSE, iseventtime |-> FALSE] >>
                \o rest.v,
        pos |-> rest.pos,
        err |-> rest.err]

readfields_name(bytes, n, i, fieldtype, offset, name) ==
  readfields_append(i, fieldtype, offset, name, readfields(bytes, name.pos, n - 1, i + 1))

readfields_offset(bytes, n, i, fieldtype, offset) ==
  readfields_name(bytes, n, i, fieldtype, offset, readtext(bytes, offset.pos))

readfields_fieldtype(bytes, n, i, fieldtype) ==
  readfields_offset(bytes, n, i, fieldtype, readint32(bytes, fieldtype.pos))

readfields(bytes, pos, n, i) ==
  IF n <= 0 THEN [ok |-> TRUE, v |-> <<>>, pos |-> pos, err |-> ""]
  ELSE readfields_fieldtype(bytes, n, i, readint32(bytes, pos))

\* A read context is [ok, pos, d, err]: d the TeaFileDescription read so far, with
\* hasitem / hastimescale telling None from a value.
NoDescription ==
  [itemdescription |-> NoItemDescription, hasitem |-> FALSE,
   contentdescription |-> <<>>, namevalues |-> <<>>,
   timescale |-> [epoch |-> 0, ticksperday |-> 0], hastimescale |-> FALSE]

Failed(rc, pos, err) == [ok |-> FALSE, pos |-> pos, d |-> rc.d, err |-> err]

Succeeded(pos, d) == [ok |-> TRUE, pos |-> pos, d |-> d, err |-> ""]

\* _ItemSectionFormatter.read; what setupfromfields raises (from getsize,
\* namedtuple or max) is a ValueError
ItemSection_setup(rc, itemsize, itemname, fieldcount, fields, id) ==
  IF ~itemsize.ok \/ ~itemname.ok \/ ~fieldcount.ok
  THEN Failed(rc, fieldcount.pos, FirstError(<<itemsize.err, itemname.err, fieldcount.err>>))
  ELSE IF ~fields.ok THEN Failed(rc, fields.pos, fields.err)
  ELSE IF ~id.ok THEN Failed(rc, fields.pos, "ValueError")
  ELSE Succeeded(fields.pos, [rc.d EXCEPT !.itemdescription = id, !.hasitem = TRUE])

ItemSection_fields(rc, itemsize, itemname, fieldcount, fields) ==
  ItemSection_setup(rc, itemsize, itemname, fieldcount, fields,
                    setupfromfields(itemname.v, fields.v))

ItemSection_fieldcount(bytes, rc, itemsize, itemname, fieldcount) ==
  ItemSection_fields(rc, itemsize, itemname, fieldcount,
                     readfields(bytes, fieldcount.pos, fieldcount.v, 1))

ItemSection_itemname(bytes, rc, itemsize, itemname) ==
  ItemSection_fieldcount(bytes, rc, itemsize, itemname, readint32(bytes, itemname.pos))

ItemSection_itemsize(bytes, rc, itemsize) ==
  ItemSection_itemname(bytes, rc, itemsize, readtext(bytes, itemsize.pos))

ItemSection_read(bytes, rc) == ItemSection_itemsize(bytes, rc, readint32(bytes, rc.pos))

\* _ContentSectionFormatter.read
ContentSection_text(rc, text) ==
  IF ~text.ok THEN Failed(rc, text.pos, text.err)
  ELSE Succeeded(text.pos, [rc.d EXCEPT !.contentdescription = text.v])

ContentSection_read(bytes, rc) == ContentSection_text(rc, readtext(bytes, rc.pos))

\* nvc.update(nv): a key read again replaces the entry read before
UpdateNameValues(nvc, nv) ==
  IF \E i \in 1..Len(nvc) : nvc[i].key = nv.key
  THEN [i \in 1..Len(nvc) |-> IF nvc[i].key = nv.key THEN nv ELSE nvc[i]]
  ELSE Append(nvc, nv)

\* the loop of _NameValueSectionFormatter.read
RECURSIVE readnamevalues(_, _, _, _)

readnamevalues_update(bytes, n, nvc, nv) ==
  IF ~nv.ok THEN [ok |-> FALSE, v |-> nvc, pos |-> nv.pos, err |-> nv.err]
  ELSE readnamevalues(bytes, nv.pos, n - 1, UpdateNameValues(nvc, nv.v))

readnamevalues(bytes, pos, n, nvc) ==
  IF n <= 0 THEN [ok |-> TRUE, v |-> nvc, pos |-> pos, err |-> ""]
  ELSE readnamevalues_update(bytes, n, nvc, readnamevalue(bytes, pos))

\* _NameValueSectionFormatter.read
NameValueSection_namevalues(rc, n, nvs) ==
  IF ~n.ok THEN Failed(rc, n.pos, n.err)
  ELSE IF n.v = 0 THEN Succeeded(n.pos, rc.d)
  ELSE IF ~nvs.ok THEN Failed(rc, nvs.pos, nvs.err)
  ELSE Succeeded(nvs.pos, [rc.d EXCEPT !.namevalues = nvs.v])

NameValueSection_count(bytes, rc, n) ==
  NameValueSection_namevalues(rc, n, readnamevalues(bytes, n.pos, n.v, <<>>))

NameValueSection_read(bytes, rc) == NameValueSection_count(bytes, rc, readint32(bytes, rc.pos))

\* getfieldbyoffset: the index of the first field at that offset, 0: RuntimeError
getfieldbyoffset(fields, offset) ==
  IF \E i \in 1..Len(fields) : fields[i].offset = offset
  THEN CHOOSE i \in 1..Len(fields) :
         fields[i].offset = offset /\ \A j \in 1..(i - 1) : fields[j].offset # offset
  ELSE 0

\* the loop of _TimeSectionFormatter.read over the time field offsets, hasitem
\* telling whether an item description was read before: without one,
\* id_.getfieldbyoffset is an attribute of None
RECURSIVE readtimefields(_, _, _, _, _, _)

readtimefields_mark(bytes, n, isfirsttimefield, fields, hasitem, o, f) ==
  IF ~o.ok THEN [ok |-> FALSE, v |-> fields, pos |-> o.pos, err |-> o.err]
  ELSE IF ~hasitem THEN [ok |-> FALSE, v |-> fields, pos |-> o.pos, err |-> "AttributeError"]
  ELSE IF f = 0 THEN [ok |-> FALSE, v |-> fields, pos |-> o.pos, err |-> "RuntimeError"]
  ELSE readtimefields(bytes, o.pos, n - 1, FALSE,
         [fields EXCEPT ![f].istime = TRUE, ![f].iseventtime = isfirsttimefield], hasitem)

readtimefields_offset(bytes, n, isfirsttimefield, fields, hasitem, o) ==
  readtimefields_mark(bytes, n, isfirsttimefield, fields, hasitem, o,
                      getfieldbyoffset(fields, o.v))

readtimefields(bytes, pos, n, isfirsttimefield, fields, hasitem) ==
  IF n <= 0 THEN [ok |-> TRUE, v |-> fields, pos |-> pos, err |-> ""]
  ELSE readtimefields_offset(bytes, n, isfirsttimefield, fields, hasitem,
                             readint32(bytes, pos))

\* _TimeSectionFormatter.read
TimeSection_timefields(rc, epoch, ticksperday, timefieldcount, withscale, marked) ==
  IF ~epoch.ok \/ ~ticksperday.ok \/ ~timefieldcount.ok
  THEN Failed(rc, timefieldcount.pos,
              FirstError(<<epoch.err, ticksperday.err, timefieldcount.err>>))
  ELSE IF timefieldcount.v = 0 THEN Succeeded(timefieldcount.pos, withscale)
  ELSE IF ~marked.ok THEN Failed(rc, marked.pos, marked.err)
  ELSE Succeeded(marked.pos, [withscale EXCEPT !.itemdescription.fields = marked.v])

TimeSection_timefieldcount(bytes, rc, epoch, ticksperday, timefieldcount) ==
  TimeSection_timefields(rc, epoch, ticksperday, timefieldcount,
    [rc.d EXCEPT !.timescale = [epoch |-> epoch.v, ticksperday |-> ticksperday.v],
                 !.hastimescale = TRUE],
    readtimefields(bytes, timefieldcount.pos, timefieldcount.v, TRUE,
                   rc.d.itemdescription.fields, rc.d.hasitem))

TimeSection_ticksperday(bytes, rc, epoch, ticksperday) ==
  TimeSection_timefieldcount(bytes, rc, epoch, ticksperday,
                             readint32(bytes, ticksperday.pos))

TimeSection_epoch(bytes, rc, epoch) ==
  TimeSection_ticksperday(bytes, rc, epoch, readint64(bytes, epoch.pos))

TimeSection_read(bytes, rc) == TimeSection_epoch(bytes, rc, readint64(bytes, rc.pos))

\* getformatter(id).read(rc) on the context `at`, placed behind the section's id
\* and size: getformatter raises for an id that has no formatter
formatter_read(bytes, rc, id, at) ==
  CASE id = ItemSectionId -> ItemSection_read(bytes, at)
    [] id = ContentSectionId -> ContentSection_read(bytes, at)
    [] id = NameValueSectionId -> NameValueSection_read(bytes, at)
    [] id = TimeSectionId -> TimeSection_read(bytes, at)
    [] OTHER -> Failed(rc, at.pos, "RuntimeError")

\* a formatter that read past the declared size raises; the position is left where
\* the formatter stopped
readsection_check(rc, sectionid, nextsectionoffset, after) ==
  IF ~sectionid.ok \/ ~nextsectionoffset.ok
  THEN Failed(rc, nextsectionoffset.pos, FirstError(<<sectionid.err, nextsectionoffset.err>>))
  ELSE IF ~after.ok THEN after
  ELSE IF after.pos - nextsectionoffset.pos > nextsectionoffset.v
  THEN Failed(after, after.pos, "RuntimeError")
  ELSE after

readsection_offset(bytes, rc, sectionid, nextsectionoffset) ==
  readsection_check(rc, sectionid, nextsectionoffset,
    formatter_read(bytes, rc, sectionid.v,
                   Succeeded(nextsectionoffset.pos, rc.d)))

readsection_id(bytes, rc, sectionid) ==
  readsection_offset(bytes, rc, sectionid, readint32(bytes, sectionid.pos))

\* _HeaderManager.readsection
readsection(bytes, rc) == readsection_id(bytes, rc, readint32(bytes, rc.pos))

RECURSIVE readsections(_, _, _)
readsections(bytes, rc, n) ==
  IF n <= 0 \/ ~rc.ok THEN rc ELSE readsections(bytes, readsection(bytes, rc), n - 1)

\* the end of readheader: the skip to the item area, a read of
\* itemareastart - position bytes. The mark is read as an int64 (struct.error on
\* fewer than 8 bytes) and compared (RuntimeError)
readheader_skip(bom, itemareastart, itemareaend, sectioncount, rc, skipped) ==
  IF bom.v # BOM \/ ~itemareastart.ok \/ ~itemareaend.ok \/ ~sectioncount.ok \/ ~rc.ok
  THEN [ok |-> FALSE, pos |-> rc.pos, d |-> rc.d, itemareastart |-> 0, itemareaend |-> 0,
        err |-> FirstError(<<IF Len(bom.v) < 8 THEN "struct.error"
                             ELSE IF bom.v # BOM THEN "RuntimeError" ELSE "",
                             itemareastart.err, itemareaend.err, sectioncount.err, rc.err>>)]
  ELSE [ok |-> TRUE, pos |-> skipped.pos, d |-> rc.d,
        itemareastart |-> itemareastart.v, itemareaend |-> itemareaend.v, err |-> ""]

readheader_sections(bytes, bom, itemareastart, itemareaend, sectioncount, rc) ==
  readheader_skip(bom, itemareastart, itemareaend, sectioncount, rc,
                  readbytes(bytes, rc.pos, itemareastart.v - rc.pos))

readheader_sectioncount(bytes, bom, itemareastart, itemareaend, sectioncount) ==
  readheader_sections(bytes, bom, itemareastart, itemareaend, sectioncount,
    readsections(bytes, Succeeded(sectioncount.pos, NoDescription), sectioncount.v))

readheader_itemareaend(bytes, bom, itemareastart, itemareaend) ==
  readheader_sectioncount(bytes, bom, itemareastart, itemareaend,
                          readint64(bytes, itemareaend.pos))

readheader_itemareastart(bytes, bom, itemareastart) ==
  readheader_itemareaend(bytes, bom, itemareastart, readint64(bytes, itemareastart.pos))

readheader_bom(bytes, bom) ==
  readheader_itemareastart(bytes, bom, readint64(bytes, bom.pos))

\* readheader: [ok, pos: the file position it leaves, d, itemareastart, itemareaend,
\* err]
readheader(bytes) == readheader_bom(bytes, readbytes(bytes, 0, 8))

\* ------------------------------------------------------------------ state
VARIABLES
  fileexists,  \* whether the path names a file
  disk,        \* the bytes of the file on disk (what os.path.getsize measures)
  tf,          \* the TeaFile objects: tf[1] the one made last, tf[2] the one before
  gens,        \* the generator objects items() returned on tf[1]
  last,        \* the last call: its arguments, what it returned or raised
  expect,      \* history: file position -> the item last written there
  unclosed,    \* whether a file object a call opened and then raised past is
               \* still open: nothing refers to it, nothing closed it
  USE_TIME_DECORATION  \* the module's option: TRUE when the module is loaded

vars == <<fileexists, disk, tf, gens, last, expect, unclosed, USE_TIME_DECORATION>>

Slots == {1, 2}
GenSlots == {1}

\* a python value as a name/value collection holds it: kind 1 an int n, kind 2 a
\* float (text its 8 bytes), kind 3 a text, kind 4 a UUID (text its 16 bytes)
PyInt(n) == [kind |-> 1, n |-> n, text |-> <<>>]
PyValue(nv) == [kind |-> nv.kind, n |-> nv.n, text |-> nv.text]

\* bool(value): 0, 0.0, -0.0 and "" are false, every other value is true
Truthy(v) ==
  CASE v.kind = 1 -> v.n # 0
    [] v.kind = 2 -> v.text \notin {<<0, 0, 0, 0, 0, 0, 0, 0>>, <<0, 0, 0, 0, 0, 0, 0, 128>>}
    [] v.kind = 3 -> v.text # <<>>
    [] OTHER -> TRUE

\* TeaFile.__init__, with file = None
NoHandle ==
  [state |-> "none", mode |-> "", pos |-> 0, wbuf |-> <<>>,
   d |-> NoDescription, itemareastart |-> 0, itemareaend |-> 0, itemsize |-> 0,
   itemstruct |-> Struct(<<>>, 0, "@"), hasnameditemtuple |-> FALSE,
   haswrite |-> FALSE, decimals |-> PyInt(-1), nw |-> 0, moved |-> FALSE]

NoGen == [state |-> "none", start |-> 0, hasend |-> FALSE, end |-> 0,
          current |-> 0, clean |-> TRUE]

\* a call: op on tf[h] (or generator gen) with index argument k and item argument
\* item (<<>>: none; for create its arguments); err is what it raised, ret what it
\* returned (<<>>: None)
Call(op, h, gen, err, ret, k, item) ==
  [op |-> op, h |-> h, gen |-> gen, err |-> err, ret |-> ret, k |-> k, item |-> item]

NoCall == Call("", 0, 0, "", <<>>, 0, <<>>)

\* ------------------------------------------------------- the file object
\* a changed file object: a write cuts the file off behind the bytes written
FileView_truncating(h, dsk) ==
  IF h.wbuf = <<>> THEN dsk
  ELSE Slice(dsk, 0, h.pos - Len(h.wbuf)) \o h.wbuf

\* The content as the handle sees it: the disk with its buffered writes applied.
\* Buffered bytes are contiguous and end at the cursor (a seek or a read flushes).
FileView(h, dsk) ==
  IF h.wbuf = <<>> THEN dsk ELSE Splice(dsk, h.pos - Len(h.wbuf), h.wbuf)

\* TeaFile._getitemareaend / _getitemareasize / itemcount (os.path.getsize reads
\* the disk; "/" is python 2's integer division)
getitemareaend(h, dsk) == IF h.itemareaend # 0 THEN h.itemareaend ELSE Len(dsk)
getitemareasize(h, dsk) == getitemareaend(h, dsk) - h.itemareastart
itemcount(h, dsk) == getitemareasize(h, dsk) \div h.itemsize

\* ------------------------------------------------------------ python values
IntValue(n) == [dt |-> FALSE, n |-> n]
DateTime(n) == [dt |-> TRUE, n |-> n]

\* DateTime.__eq__ compares the ticks, with a DateTime as with an int
PyEq(a, b) == a.n = b.n
ItemEq(a, b) == Len(a) = Len(b) /\ \A i \in 1..Len(a) : PyEq(a[i], b[i])

\* Field.decoratetime on every value: a DateTime is replaced by its ticks
decoratetime(item) == [i \in 1..Len(item) |-> IntValue(item[i].n)]

\* Field.getvalue on every field: a time field's value is wrapped into a DateTime
getvalues(fields, ints) ==
  [i \in 1..Len(fields) |-> IF fields[i].istime THEN DateTime(ints[i]) ELSE IntValue(ints[i])]

\* what struct.pack raises for: a value that is no int, or out of the type's range
Packable(st, item) ==
  /\ Len(item) = Len(st.types)
  /\ \A i \in 1..Len(item) : ~item[i].dt /\ InRange(st.types[i], item[i].n)

\* ---------------------------------------------------------------- inputs
\*                 A                          T   i    m    e
NamesA == << <<65>> >>
NamesTimeA == << <<84, 105, 109, 101>>, <<65>> >>
\*              d    e    c   i    m    a   l    s
DecimalsKey == <<100, 101, 99, 105, 109, 97, 108, 115>>

\* the arguments of create: A:"h", and Time,A:"bh" with a content description
\* and a name/value collection
Descriptions ==
  { [fieldnames |-> NamesA, fieldformat |-> <<104>>,
     contentdescription |-> <<>>, namevalues |-> <<>>],
    [fieldnames |-> NamesTimeA, fieldformat |-> <<98, 104>>,
     contentdescription |-> <<99>>,
     namevalues |-> << [key |-> DecimalsKey, kind |-> 1, n |-> 2, text |-> <<>>] >>] }

\* ------------------------------------------------- the arguments of create
MaxFields == 3
MaxFormatLen == 3
MaxNameLen == 2
MaxNameValues == 2

CreateArgs(fieldnames, fieldformat, contentdescription, namevalues) ==
  [fieldnames |-> fieldnames, fieldformat |-> fieldformat,
   contentdescription |-> contentdescription, namevalues |-> namevalues]

Strings(alphabet, n) == UNION {[1..k -> alphabet] : k \in 1..n}

\* the field names A, B, C, ...
LetterNames(n) == [i \in 1..n |-> <<64 + i>>]

\* every list of 1..MaxFields field types, as its format string
LayoutInputs ==
  { CreateArgs(LetterNames(Len(f)), f, <<>>, <<>>) :
      f \in Strings({formatCharacters[i] : i \in 1..10}, MaxFields) }

\* format strings with digits, byte order characters and the pad byte x, for one
\* and for two field names
\*               h    q    4   @   <   >   =   !   x
FormatAlphabet == {104, 113, 52, 64, 60, 62, 61, 33, 120}
FormatInputs ==
  { CreateArgs(LetterNames(n), f, <<>>, <<>>) :
      n \in 1..2, f \in Strings(FormatAlphabet, MaxFormatLen) }

\* field names with characters that are no letters, for one and for two fields
\*             A   b   -   _   1
NameAlphabet == {65, 98, 45, 95, 49}
NameInputs ==
  { CreateArgs(<<n>>, <<104>>, <<>>, <<>>) : n \in Strings(NameAlphabet, MaxNameLen) }
    \cup { CreateArgs(<<n, m>>, <<104, 104>>, <<>>, <<>>) :
             n \in Strings(NameAlphabet, MaxNameLen), m \in {<<65>>, <<98>>} }

\* name/value collections of up to MaxNameValues entries with the keys a and b:
\* the int 1, the float 1.5, the text "t", a UUID, None
NameValueInputs ==
  { [key |-> <<97>>, kind |-> 1, n |-> 1, text |-> <<>>],
    [key |-> <<97>>, kind |-> 2, n |-> 0, text |-> <<0, 0, 0, 0, 0, 0, 248, 63>>],
    [key |-> <<97>>, kind |-> 3, n |-> 0, text |-> <<116>>],
    [key |-> <<97>>, kind |-> 4, n |-> 0, text |-> [i \in 1..16 |-> i]],
    [key |-> <<97>>, kind |-> 0, n |-> 0, text |-> <<>>] }

NameValueCollections ==
  { nvs \in UNION {[1..k -> NameValueInputs \cup
                              {[nv EXCEPT !.key = <<98>>] : nv \in NameValueInputs}] :
                     k \in 0..MaxNameValues} :
      \A i, j \in 1..Len(nvs) : nvs[i].key = nvs[j].key => i = j }

\* descriptions: fields named time or not, a content description or none, a
\* name/value collection
\*               t    i    m    e
NamesTimetime == << <<84, 105, 109, 101>>, <<116, 105, 109, 101>> >>
DescriptionInputs ==
  { CreateArgs(l[1], l[2], cd, nvs) :
      l \in { <<NamesA, <<104>>>>, <<NamesTimeA, <<113, 104>>>>,
              <<NamesTimetime, <<113, 113>>>> },
      cd \in { <<>>, <<99>> },
      nvs \in NameValueCollections }

\* name/value collections with the entry "decimals": ints from the least to the
\* greatest the model's integers hold, the floats 0.0 and 1.5, the texts "" and
\* "t"; alone and behind another entry
DecimalsValues ==
  { PyInt(n) : n \in {-2147483647, -2, -1, 0, 1, 3, 2147483647} }
    \cup { [kind |-> 2, n |-> 0, text |-> <<0, 0, 0, 0, 0, 0, 0, 0>>],
            [kind |-> 2, n |-> 0, text |-> <<0, 0, 0, 0, 0, 0, 248, 63>>],
            [kind |-> 3, n |-> 0, text |-> <<>>],
            [kind |-> 3, n |-> 0, text |-> <<116>>] }
DecimalsInputs ==
  { CreateArgs(NamesA, <<104>>, <<>>,
               front \o << [key |-> DecimalsKey, kind |-> v.kind, n |-> v.n, text |-> v.text] >>) :
      v \in DecimalsValues,
      front \in { <<>>, << [key |-> <<97>>, kind |-> 1, n |-> 1, text |-> <<>>] >> } }

\* lists of 1..MaxFields different field names out of A, Time, time, TIME, every
\* field an Int64
TimeNames == { <<65>>, <<84, 105, 109, 101>>, <<116, 105, 109, 101>>, <<84, 73, 77, 69>> }
TimeNameInputs ==
  { CreateArgs(names, RepeatQ(Len(names)), <<>>, <<>>) :
      names \in { ns \in UNION {[1..k -> TimeNames] : k \in 1..MaxFields} :
                    \A i, j \in 1..Len(ns) : ns[i] = ns[j] => i = j } }

CreateInputs ==
  LayoutInputs \cup FormatInputs \cup NameInputs \cup DescriptionInputs \cup DecimalsInputs
    \cup TimeNameInputs

\* the items write is called with on a handle: an int per field, and for a field
\* named time an int or a DateTime
WriteInputs(h) ==
  IF Len(h.d.itemdescription.fields) = 1
  THEN { <<IntValue(-2)>>, <<IntValue(258)>> }
  ELSE { <<IntValue(1), IntValue(258)>>, <<DateTime(-1), IntValue(-2)>> }

\* argument lists of write with a value too few or too many: ints, and a
\* DateTime in the first place
ArityInputs(h) ==
  LET n == Len(h.d.itemdescription.fields)
  IN { [i \in 1..m |-> IntValue(i)] : m \in {n - 1, n + 1} }
       \cup { [i \in 1..m |-> IF i = 1 THEN DateTime(3) ELSE IntValue(i)] : m \in {n - 1, n + 1} }

\* an index so far before the item area that the position is negative
FarBefore(h) == IF h.itemsize = 0 THEN -1 ELSE -(h.itemareastart \div h.itemsize) - 1
SeekInputs(h) == (0..MaxItems) \cup {FarBefore(h)}

\* ------------------------------------------- operations on one handle
\* Each gives [err, ret, h, disk]: what the call raised ("" for nothing) and
\* returned, the handle and the disk after it.
Result(err, ret, h, dsk) == [err |-> err, ret |-> ret, h |-> h, disk |-> dsk]

Flushed(h) == [h EXCEPT !.wbuf = <<>>]

\* a changed flush: the buffered bytes stay in the buffer
flush_keepsbuffer(h, dsk) ==
  IF h.state = "closed" THEN Result("ValueError", <<>>, h, dsk)
  ELSE Result("", <<>>, h, dsk)

\* TeaFile.flush
flush(h, dsk) ==
  IF h.state = "closed" THEN Result("ValueError", <<>>, h, dsk)
  ELSE Result("", <<>>, Flushed(h), FileView(h, dsk))

\* a changed seekitem: the item area start is left out of the position
seekitem_fromzero(h, dsk, itemindex) ==
  LET target == itemindex * h.itemsize
  IN IF h.state = "closed" THEN Result("ValueError", <<>>, h, dsk)
     ELSE IF target < 0 THEN Result("IOError", <<>>, Flushed(h), FileView(h, dsk))
     ELSE Result("", <<>>, [Flushed(h) EXCEPT !.pos = target, !.moved = TRUE],
                 FileView(h, dsk))

\* TeaFile.seekitem: file.seek writes the buffered bytes out, then moves the cursor;
\* a negative position is refused after the buffer was written out
seekitem(h, dsk, itemindex) ==
  LET target == h.itemareastart + itemindex * h.itemsize
  IN IF h.state = "closed" THEN Result("ValueError", <<>>, h, dsk)
     ELSE IF target < 0 THEN Result("IOError", <<>>, Flushed(h), FileView(h, dsk))
     ELSE Result("", <<>>, [Flushed(h) EXCEPT !.pos = target, !.moved = TRUE],
                 FileView(h, dsk))

\* a changed seekend: a closed file is not refused
seekend_onclosed(h, dsk) ==
  Result("", <<>>, [Flushed(h) EXCEPT !.pos = Len(FileView(h, dsk)), !.moved = TRUE],
         FileView(h, dsk))

\* TeaFile.seekend: file.seek(0, 2)
seekend(h, dsk) ==
  IF h.state = "closed" THEN Result("ValueError", <<>>, h, dsk)
  ELSE Result("", <<>>, [Flushed(h) EXCEPT !.pos = Len(FileView(h, dsk)), !.moved = TRUE],
              FileView(h, dsk))

\* TeaFile.read: None (ret = <<>>) when no byte is left, else the item (ret = <<item>>)
read(h, dsk) ==
  LET view == FileView(h, dsk)
      itembytes == Slice(view, h.pos, h.itemsize)
      after == [Flushed(h) EXCEPT !.pos = h.pos + Len(itembytes)]
  IN IF h.state = "closed" THEN Result("ValueError", <<>>, h, dsk)
     ELSE IF h.mode = "wb" THEN Result("IOError", <<>>, h, dsk)
     ELSE IF itembytes = <<>> THEN Result("", <<>>, after, view)
     ELSE IF Len(itembytes) # StructSize(h.itemstruct) THEN Result("struct.error", <<>>, after, view)
     ELSE IF ~h.hasnameditemtuple THEN Result("TypeError", <<>>, after, view)
     ELSE Result("", << getvalues(h.d.itemdescription.fields,
                                  StructUnpack(h.itemstruct, itembytes)) >>, after, view)

\* a changed write: _write is called whatever the number of values is
write_anyarity(h, dsk, item) ==
  LET itemvalues == IF USE_TIME_DECORATION THEN decoratetime(item) ELSE item
      bytes == StructPack(h.itemstruct, [i \in 1..Len(itemvalues) |-> itemvalues[i].n])
  IN IF ~h.haswrite THEN Result("TypeError", <<>>, h, dsk)
     ELSE IF ~Packable(h.itemstruct, itemvalues) THEN Result("struct.error", <<>>, h, dsk)
     ELSE IF h.state = "closed" THEN Result("ValueError", <<>>, h, dsk)
     ELSE IF h.mode = "rb" THEN Result("IOError", <<>>, h, dsk)
     ELSE Result("", <<>>,
                 [h EXCEPT !.wbuf = @ \o bytes, !.pos = @ + Len(bytes),
                           !.nw = IF h.moved THEN 0 ELSE @ + 1],
                 dsk)

\* the write method _attachwritemethod made, and _write
write(h, dsk, item) ==
  LET itemvalues == IF USE_TIME_DECORATION THEN decoratetime(item) ELSE item
      bytes == StructPack(h.itemstruct, [i \in 1..Len(itemvalues) |-> itemvalues[i].n])
  IN IF ~h.haswrite THEN Result("TypeError", <<>>, h, dsk)
     ELSE IF Len(item) # Len(h.d.itemdescription.fieldnames) THEN Result("TypeError", <<>>, h, dsk)
     ELSE IF ~Packable(h.itemstruct, itemvalues) THEN Result("struct.error", <<>>, h, dsk)
     ELSE IF h.state = "closed" THEN Result("ValueError", <<>>, h, dsk)
     ELSE IF h.mode = "rb" THEN Result("IOError", <<>>, h, dsk)
     ELSE Result("", <<>>,
                 [h EXCEPT !.wbuf = @ \o bytes, !.pos = @ + Len(bytes),
                           !.nw = IF h.moved THEN 0 ELSE @ + 1],
                 dsk)

\* a changed close: the buffered bytes are dropped
close_dropsbuffer(h, dsk) ==
  IF h.state = "closed" THEN Result("", <<>>, h, dsk)
  ELSE Result("", <<>>, [Flushed(h) EXCEPT !.state = "closed", !.pos = 0], dsk)

\* TeaFile.close: file.close writes the buffered bytes out; closing again does nothing
close(h, dsk) ==
  IF h.state = "closed" THEN Result("", <<>>, h, dsk)
  ELSE Result("", <<>>, [Flushed(h) EXCEPT !.state = "closed", !.pos = 0], FileView(h, dsk))

\* -------------------------------------------------- create and open
JavaTimeScale == [epoch |-> JavaEpoch, ticksperday |-> JavaTicksPerDay]

\* the description TeaFile.create sets up from its arguments
CreateDescription(a) ==
  [itemdescription |-> ItemDescription_create(a.fieldnames, a.fieldformat),
   hasitem |-> TRUE,
   contentdescription |-> a.contentdescription,
   namevalues |-> a.namevalues,
   timescale |-> JavaTimeScale, hastimescale |-> TRUE]

\* the handle TeaFile.create returns: the file opened "wb", the header written and
\* flushed, the cursor behind it
create(a) ==
  LET d == CreateDescription(a)
      wc == writeheader(d)
  IN [NoHandle EXCEPT !.state = "open", !.mode = "wb", !.pos = Len(wc.bytes),
                      !.d = d, !.itemareastart = wc.itemareastart,
                      !.itemareaend = wc.itemareaend,
                      !.itemsize = d.itemdescription.itemsize,
                      !.itemstruct = d.itemdescription.itemstruct,
                      !.haswrite = TRUE]

\* `if nvs and nvs.get("decimals"): tf.decimals = nvs["decimals"]`: the value of
\* the entry when there is one and the value is true, else the -1 of __init__
decimalsof(nvs) ==
  IF \E i \in 1..Len(nvs) : nvs[i].key = DecimalsKey /\ Truthy(PyValue(nvs[i]))
  THEN PyValue(nvs[CHOOSE i \in 1..Len(nvs) : nvs[i].key = DecimalsKey])
  ELSE PyInt(-1)

\* TeaFile._open on the header read from the file
open(rc, mode) ==
  [NoHandle EXCEPT !.state = "open", !.mode = mode, !.pos = rc.pos, !.d = rc.d,
                   !.itemsize = IF rc.d.hasitem THEN rc.d.itemdescription.itemsize ELSE 0,
                   !.itemstruct = rc.d.itemdescription.itemstruct,
                   !.hasnameditemtuple = rc.d.hasitem,
                   !.itemareastart = rc.itemareastart,
                   !.itemareaend = rc.itemareaend,
                   !.decimals = decimalsof(rc.d.namevalues)]

\* a changed openread: the write method is attached as openwrite attaches it
openread_attacheswrite(rc) == [open(rc, "rb") EXCEPT !.haswrite = TRUE]

\* TeaFile.openread: no write method is attached
openread(rc) == open(rc, "rb")

\* a changed openwrite: the cursor stays where the header ended
openwrite_noseekend(rc, dsk) ==
  [open(rc, "r+b") EXCEPT !.haswrite = TRUE]

\* TeaFile.openwrite: the write method is attached and the cursor moved to the end
openwrite(rc, dsk) ==
  [open(rc, "r+b") EXCEPT !.haswrite = TRUE, !.pos = Len(dsk)]

\* ---------------------------------------------------------------- actions
Init ==
  /\ fileexists = FALSE
  /\ disk = <<>>
  /\ tf = [s \in Slots |-> NoHandle]
  /\ gens = [g \in GenSlots |-> NoGen]
  /\ last = NoCall
  /\ expect = <<>>
  /\ unclosed = FALSE
  /\ USE_TIME_DECORATION = TRUE

\* one handle is open at a time (section 5: no concurrent use of a file)
NoneOpen == \A s \in Slots : tf[s].state # "open"

\* the object before the last one; its history counters are no longer followed
Retired(h) == [h EXCEPT !.nw = 0, !.moved = FALSE]

\* the new object becomes tf[1], the one before it tf[2]
Shift(h) == [s \in Slots |-> IF s = 1 THEN h ELSE Retired(tf[1])]

NoGens == [g \in GenSlots |-> NoGen]

\* the history after an item was written at position pos
Recorded(exp, pos, size, item) ==
  LET kept == {q \in DOMAIN exp : q + size <= pos \/ pos + size <= q}
  IN [q \in kept \cup {pos} |-> IF q = pos THEN item ELSE exp[q]]

\* a call on tf[1] that moved its cursor: running generators are no longer alone
Disturbed(s, err) ==
  [g \in GenSlots |->
     IF s = 1 /\ err = "" /\ gens[g].state = "running"
     THEN [gens[g] EXCEPT !.clean = FALSE] ELSE gens[g]]

\* TeaFile.create up to its return: ItemDescription.create raises before the file
\* is opened; open(filename, "wb") makes the file or cuts it to no bytes;
\* createsections raises before writeheader wrote its first byte. opened: the
\* file was opened, bytes: what the file holds then, tf: the handle returned
createresult(a) ==
  IF ItemDescription_raises(a.fieldnames, a.fieldformat) # ""
  THEN [err |-> ItemDescription_raises(a.fieldnames, a.fieldformat), opened |-> FALSE,
        bytes |-> <<>>, tf |-> NoHandle]
  ELSE IF writeheader_raises(CreateDescription(a)) # ""
  THEN [err |-> writeheader_raises(CreateDescription(a)), opened |-> TRUE,
        bytes |-> <<>>, tf |-> NoHandle]
  ELSE [err |-> "", opened |-> TRUE, bytes |-> writeheader(CreateDescription(a)).bytes,
        tf |-> create(a)]

\* what create does for the argument lists of Descriptions
Created == [a \in Descriptions |-> createresult(a)]

\* TeaFile.create(filename, fieldnames, fieldformat, contentdescription, namevalues)
Create(a) ==
  /\ NoneOpen
  /\ \E r \in {IF a \in Descriptions THEN Created[a] ELSE createresult(a)} :
       IF ~r.opened
       THEN /\ last' = Call("create", 0, 0, r.err, <<>>, 0, <<a>>)
            /\ UNCHANGED <<USE_TIME_DECORATION, fileexists, disk, tf, gens, expect, unclosed>>
       ELSE IF r.err # ""
       THEN /\ fileexists' = TRUE
            /\ disk' = r.bytes
            /\ expect' = <<>>
            /\ unclosed' = TRUE
            /\ last' = Call("create", 0, 0, r.err, <<>>, 0, <<a>>)
            /\ UNCHANGED <<USE_TIME_DECORATION, tf, gens>>
       ELSE /\ fileexists' = TRUE
            /\ disk' = r.bytes
            /\ tf' = Shift(r.tf)
            /\ gens' = NoGens
            /\ expect' = <<>>
            /\ last' = Call("create", 1, 0, "", <<>>, 0, <<a>>)
            /\ UNCHANGED <<USE_TIME_DECORATION, unclosed>>

\* what TeaFile._open raises on a file that exists, rc what readheader made of it:
\* the exception readheader raised, at the first read or test that failed
open_raises(bytes, rc) == rc.err

\* TeaFile.openread(filename): _open has no try/finally, the file object of a
\* call that raised is left open
OpenRead ==
  /\ NoneOpen
  /\ \E rc \in {readheader(disk)} :
       IF ~fileexists
       THEN /\ last' = Call("openread", 0, 0, "IOError", <<>>, 0, <<>>)
            /\ UNCHANGED <<USE_TIME_DECORATION, fileexists, disk, tf, gens, expect, unclosed>>
       ELSE IF ~rc.ok
       THEN /\ last' = Call("openread", 0, 0, open_raises(disk, rc), <<>>, 0, <<>>)
            /\ unclosed' = TRUE
            /\ UNCHANGED <<USE_TIME_DECORATION, fileexists, disk, tf, gens, expect>>
       ELSE /\ tf' = Shift(openread(rc))
            /\ gens' = NoGens
            /\ last' = Call("openread", 1, 0, "", <<>>, 0, <<>>)
            /\ UNCHANGED <<USE_TIME_DECORATION, fileexists, disk, expect, unclosed>>

\* TeaFile.openwrite(filename)
OpenWrite ==
  /\ NoneOpen
  /\ \E rc \in {readheader(disk)} :
       IF ~fileexists
       THEN /\ last' = Call("openwrite", 0, 0, "IOError", <<>>, 0, <<>>)
            /\ UNCHANGED <<USE_TIME_DECORATION, fileexists, disk, tf, gens, expect, unclosed>>
       ELSE IF ~rc.ok
       THEN /\ last' = Call("openwrite", 0, 0, open_raises(disk, rc), <<>>, 0, <<>>)
            /\ unclosed' = TRUE
            /\ UNCHANGED <<USE_TIME_DECORATION, fileexists, disk, tf, gens, expect>>
       ELSE IF ~rc.d.hasitem
       THEN /\ last' = Call("openwrite", 0, 0, "AttributeError", <<>>, 0, <<>>)
            /\ unclosed' = TRUE
            /\ UNCHANGED <<USE_TIME_DECORATION, fileexists, disk, tf, gens, expect>>
       ELSE /\ tf' = Shift(openwrite(rc, disk))
            /\ gens' = NoGens
            /\ last' = Call("openwrite", 1, 0, "", <<>>, 0, <<>>)
            /\ UNCHANGED <<USE_TIME_DECORATION, fileexists, disk, expect, unclosed>>

\* the garbage collector reclaims the file objects nothing refers to; reclaiming
\* closes them (they hold no unwritten bytes: every call that left one raised
\* before it wrote)
Collect ==
  /\ unclosed
  /\ unclosed' = FALSE
  /\ UNCHANGED <<USE_TIME_DECORATION, fileexists, disk, tf, gens, last, expect>>

\* struct.pack on a DateTime, which write passes on when the option is off:
\* python 3 raises struct.error, python 2 packs int(value), the ticks (__int__)
writeoutcomes(h, dsk, item) == {write(h, dsk, item), write(h, dsk, decoratetime(item))}

\* tf[s].write(*item)
Write(s, item) ==
  \E r \in writeoutcomes(tf[s], disk, item) :
  /\ tf[s].state # "none"
  /\ r.err = "" => r.h.pos <= tf[s].itemareastart + MaxItems * tf[s].itemsize
  /\ tf' = [tf EXCEPT ![s] = r.h]
  /\ disk' = r.disk
  /\ gens' = Disturbed(s, r.err)
  /\ expect' = IF r.err = "" THEN Recorded(expect, tf[s].pos, tf[s].itemsize, item) ELSE expect
  /\ last' = Call("write", s, 0, r.err, r.ret, 0, <<item>>)
  /\ UNCHANGED <<USE_TIME_DECORATION, fileexists, unclosed>>

\* tf[s].read()
Read(s) ==
  \E r \in {read(tf[s], disk)} :
  /\ tf[s].state # "none"
  /\ tf' = [tf EXCEPT ![s] = r.h]
  /\ disk' = r.disk
  /\ gens' = Disturbed(s, r.err)
  /\ last' = Call("read", s, 0, r.err, r.ret, 0, <<>>)
  /\ UNCHANGED <<USE_TIME_DECORATION, fileexists, unclosed, expect>>

\* tf[s].seekitem(k)
SeekItem(s, k) ==
  \E r \in {seekitem(tf[s], disk, k)} :
  /\ tf[s].state # "none"
  /\ tf' = [tf EXCEPT ![s] = r.h]
  /\ disk' = r.disk
  /\ gens' = Disturbed(s, r.err)
  /\ last' = Call("seekitem", s, 0, r.err, r.ret, k, <<>>)
  /\ UNCHANGED <<USE_TIME_DECORATION, fileexists, unclosed, expect>>

\* tf[s].seekend()
SeekEnd(s) ==
  \E r \in {seekend(tf[s], disk)} :
  /\ tf[s].state # "none"
  /\ tf' = [tf EXCEPT ![s] = r.h]
  /\ disk' = r.disk
  /\ gens' = Disturbed(s, r.err)
  /\ last' = Call("seekend", s, 0, r.err, r.ret, 0, <<>>)
  /\ UNCHANGED <<USE_TIME_DECORATION, fileexists, unclosed, expect>>

\* tf[s].flush()
Flush(s) ==
  \E r \in {flush(tf[s], disk)} :
  /\ tf[s].state # "none"
  /\ tf' = [tf EXCEPT ![s] = r.h]
  /\ disk' = r.disk
  /\ last' = Call("flush", s, 0, r.err, r.ret, 0, <<>>)
  /\ UNCHANGED <<USE_TIME_DECORATION, fileexists, unclosed, gens, expect>>

\* tf[s].close()
Close(s) ==
  \E r \in {close(tf[s], disk)} :
  /\ tf[s].state # "none"
  /\ tf' = [tf EXCEPT ![s] = r.h]
  /\ disk' = r.disk
  /\ last' = Call("close", s, 0, r.err, r.ret, 0, <<>>)
  /\ UNCHANGED <<USE_TIME_DECORATION, fileexists, unclosed, gens, expect>>

\* gens[g] = tf[1].items(start, end), or tf[1].items(start) for hasend = FALSE:
\* calling a generator function runs none of its body
Items(g, start, hasend, end) ==
  /\ tf[1].state # "none"
  /\ gens' = [gens EXCEPT ![g] = [NoGen EXCEPT !.state = "new", !.start = start,
                                               !.hasend = hasend, !.end = end]]
  /\ last' = Call("items", 1, g, "", <<>>, start, <<>>)
  /\ UNCHANGED <<USE_TIME_DECORATION, fileexists, unclosed, disk, tf, expect>>

\* a changed items: the sequence starts at the cursor, without the seek to start
itemsbegin_noseek(h, dsk, start) ==
  IF h.state = "closed" THEN Result("ValueError", <<>>, h, dsk)
  ELSE Result("", <<>>, h, dsk)

\* self.seekitem(start), the first statement of the body of items
itemsbegin(h, dsk, start) == seekitem(h, dsk, start)

\* `if not end: end = self.itemcount`: not end holds for None and for 0
itemsend(h, dsk, hasend, end) == IF ~hasend \/ end = 0 THEN itemcount(h, dsk) ELSE end

\* next(gens[g]): the body of items up to its next yield. The first step seeks to
\* start and rebinds the local end; every step reads one item at the handle's
\* cursor while current < end, and yields what read returned. A sequence that
\* ended or raised has no frame any more
NextItem(g) ==
  \E sk \in {IF gens[g].state = "new" THEN itemsbegin(tf[1], disk, gens[g].start)
               ELSE Result("", <<>>, tf[1], disk)} :
  \E rd \in {read(sk.h, sk.disk)} :
  LET gen == gens[g]
      first == gen.state = "new"
      end == IF first THEN itemsend(sk.h, sk.disk, gen.hasend, gen.end) ELSE gen.end
      current == IF first THEN gen.start ELSE gen.current + 1
      finished == [NoGen EXCEPT !.state = "done"]
      others(gs) == [x \in GenSlots |->
                       IF x # g /\ gs[x].state = "running" THEN [gs[x] EXCEPT !.clean = FALSE]
                       ELSE gs[x]]
  IN /\ gen.state \in {"new", "running"}
     /\ UNCHANGED <<USE_TIME_DECORATION, fileexists, unclosed, expect>>
     /\ IF sk.err # ""
        THEN /\ tf' = [tf EXCEPT ![1] = sk.h]
             /\ disk' = sk.disk
             /\ gens' = [gens EXCEPT ![g] = finished]
             /\ last' = Call("next", 1, g, sk.err, <<>>, current, <<>>)
        ELSE IF ~(current < end)
        THEN /\ tf' = [tf EXCEPT ![1] = sk.h]
             /\ disk' = sk.disk
             /\ gens' = [gens EXCEPT ![g] = finished]
             /\ last' = Call("next", 1, g, "StopIteration", <<>>, current, <<>>)
        ELSE IF rd.err # ""
        THEN /\ tf' = [tf EXCEPT ![1] = rd.h]
             /\ disk' = rd.disk
             /\ gens' = [gens EXCEPT ![g] = finished]
             /\ last' = Call("next", 1, g, rd.err, <<>>, current, <<>>)
        ELSE /\ tf' = [tf EXCEPT ![1] = rd.h]
             /\ disk' = rd.disk
             /\ gens' = others([gens EXCEPT ![g] = [gen EXCEPT !.state = "running",
                                   !.hasend = TRUE, !.end = end, !.current = current]])
             /\ last' = Call("next", 1, g, "", rd.ret, current, <<>>)

\* Sessions on the file one after the other, each through the newest object:
\* create / openread / openwrite, calls, close.
Next ==
  \/ \E a \in Descriptions : Create(a)
  \/ OpenRead
  \/ OpenWrite
  \/ \E item \in WriteInputs(tf[1]) : Write(1, item)
  \/ Read(1)
  \/ \E k \in SeekInputs(tf[1]) : SeekItem(1, k)
  \/ SeekEnd(1)
  \/ Flush(1)
  \/ Close(1)

Spec == Init /\ [][Next]_vars

\* ------------------------------------------------- one session with items()
\* the file create and n writes leave behind
RECURSIVE PackedItems(_, _)
PackedItems(st, items) ==
  IF items = <<>> THEN <<>>
  ELSE StructPack(st, [i \in 1..Len(Head(items)) |-> Head(items)[i].n])
         \o PackedItems(st, Tail(items))

CreatedFile(a, items) ==
  writeheader(CreateDescription(a)).bytes
    \o PackedItems(CreateDescription(a).itemdescription.itemstruct, items)

ItemSeqs(S) == UNION {[1..n -> S] : n \in 0..MaxItems}

\* a file made by create and writes, opened by openread or openwrite
InitItems ==
  /\ fileexists = TRUE
  /\ \E a \in Descriptions : \E items \in ItemSeqs(WriteInputs(create(a))) :
       /\ disk = CreatedFile(a, items)
       /\ \E m \in {"rb", "r+b"} :
            tf = [s \in Slots |->
                    IF s = 2 THEN NoHandle
                    ELSE IF m = "rb" THEN openread(readheader(CreatedFile(a, items)))
                    ELSE openwrite(readheader(CreatedFile(a, items)), CreatedFile(a, items))]
       /\ expect = [p \in {create(a).itemareastart + (i - 1) * create(a).itemsize :
                             i \in 1..Len(items)} |->
                      items[((p - create(a).itemareastart) \div create(a).itemsize) + 1]]
  /\ gens = NoGens
  /\ last = NoCall
  /\ unclosed = FALSE
  /\ USE_TIME_DECORATION = TRUE

NextItems ==
  \/ \E start \in 0..MaxItems : Items(1, start, FALSE, 0)
  \/ \E start \in 0..MaxItems : \E end \in 0..MaxItems : Items(1, start, TRUE, end)
  \/ NextItem(1)
  \/ \E item \in WriteInputs(tf[1]) : Write(1, item)
  \/ Read(1)
  \/ \E k \in SeekInputs(tf[1]) : SeekItem(1, k)
  \/ SeekEnd(1)
  \/ Flush(1)
  \/ Close(1)

SpecItems == InitItems /\ [][NextItems]_vars

\* ------------------------------------------ one create, then sessions on its file
\* the file that is at the path before: none, or a TeaFile with two items
OldFile ==
  CreatedFile(CreateArgs(NamesA, <<104>>, <<>>, <<>>),
              << <<IntValue(-2)>>, <<IntValue(258)>> >>)

InitCreate ==
  /\ \E old \in {<<>>, OldFile} : fileexists = (old # <<>>) /\ disk = old
  /\ tf = [s \in Slots |-> NoHandle]
  /\ gens = NoGens
  /\ last = NoCall
  /\ expect = <<>>
  /\ unclosed = FALSE
  /\ USE_TIME_DECORATION = TRUE

\* the item written: 1 for every field
OnesItem(h) == [i \in 1..Len(h.d.itemdescription.fields) |-> IntValue(1)]

\* create is the first call, with any of the argument lists; its handle is
\* written to and closed, then the file is opened once more
NextCreate ==
  \/ last = NoCall /\ \E a \in CreateInputs : Create(a)
  \/ tf[2].state = "none" /\ OpenRead
  \/ tf[2].state = "none" /\ OpenWrite
  \/ Write(1, OnesItem(tf[1]))
  \/ Close(1)
  \/ Collect

SpecCreate == InitCreate /\ [][NextCreate]_vars

\* ================================================================ properties
\* the index of the item that starts at file position pos
IndexAt(h, pos) == (pos - h.itemareastart) \div h.itemsize

\* the file position of the item with index i
PositionOf(h, i) == h.itemareastart + i * h.itemsize

\* the item stored in bytes at file position pos, as the handle's layout decodes it
ItemAt(h, bytes, pos) ==
  getvalues(h.d.itemdescription.fields,
            StructUnpack(h.itemstruct, Slice(bytes, pos, h.itemsize)))

\* a handle opened after an earlier writing handle on the file was closed
Reopened ==
  /\ tf[1].state = "open" /\ tf[1].mode \in {"rb", "r+b"}
  /\ tf[2].state = "closed" /\ tf[2].mode \in {"wb", "r+b"}

\* C1: a read that returns an item from a position an item was written to returns
\* that item, field by field: every integer is the integer written, and a time
\* field gives a DateTime of the ticks written.
C1_RoundTrip ==
  (last.op = "read" /\ last.err = "" /\ last.ret # <<>>
     /\ (tf[1].pos - tf[1].itemsize) \in DOMAIN expect)
  => /\ ItemEq(last.ret[1], expect[tf[1].pos - tf[1].itemsize])
     /\ \A i \in 1..Len(last.ret[1]) :
          last.ret[1][i].dt = tf[1].d.itemdescription.fields[i].istime

\* C1 happens: a reopened read-only handle, after a seek, read back an item of
\* two fields with a negative value that a handle closed before it had written
C1_Witness ==
  /\ Reopened /\ tf[1].mode = "rb" /\ tf[1].moved
  /\ last.op = "read" /\ last.err = "" /\ last.ret # <<>>
  /\ (tf[1].pos - tf[1].itemsize) \in DOMAIN expect
  /\ Len(last.ret[1]) = 2 /\ last.ret[1][2].n < 0

\* C2: on a handle from create that only wrote, itemcount after a flush is the
\* number of writes made so far; and a reader opened after that handle was closed
\* reports the number of writes it made.
C2_CountAfterFlush ==
  /\ [](  (tf[1].state = "open" /\ tf[1].mode = "wb" /\ ~tf[1].moved
             /\ last.op = "flush" /\ last.err = "")
          => itemcount(tf[1], disk) = tf[1].nw )
  /\ [][ (last'.op = "openread" /\ last'.err = "" /\ tf[1].mode = "wb" /\ ~tf[1].moved)
         => itemcount(tf'[1], disk') = tf[1].nw ]_vars

\* C2 happens: MaxItems writes on a handle from create, then a flush
C2_Witness ==
  /\ tf[1].state = "open" /\ tf[1].mode = "wb" /\ ~tf[1].moved
  /\ last.op = "flush" /\ last.err = ""
  /\ tf[1].nw = MaxItems

\* a handle that is open in a mode that can read
Readable(h) == h.state = "open" /\ h.mode \in {"rb", "r+b"}

\* C3: seekitem(k) with k >= 0 on an open handle succeeds for every k and leaves
\* the cursor at itemareastart + k * itemsize; the read that follows it returns the
\* item with index k when k < itemcount (the item written there, where one was
\* written), and returns None without an error when k >= itemcount; and every read
\* with the cursor at or past the end of the file returns None without an error.
C3_SeekThenRead ==
  [][ /\ (last'.op = "seekitem" /\ tf[1].state = "open" /\ last'.k >= 0)
         => /\ last'.err = ""
            /\ tf'[1].pos = PositionOf(tf[1], last'.k)
      /\ (last.op = "seekitem" /\ last.err = "" /\ last.k >= 0
            /\ last'.op = "read" /\ Readable(tf[1]))
         => /\ last'.err = ""
            /\ IF last.k < itemcount(tf[1], disk)
               THEN /\ last'.ret = << ItemAt(tf[1], disk, PositionOf(tf[1], last.k)) >>
                    /\ PositionOf(tf[1], last.k) \in DOMAIN expect
                         => ItemEq(last'.ret[1], expect[PositionOf(tf[1], last.k)])
               ELSE last'.ret = <<>>
      /\ (last'.op = "read" /\ Readable(tf[1])
            /\ tf[1].pos >= Len(FileView(tf[1], disk)))
         => (last'.err = "" /\ last'.ret = <<>>)
    ]_vars

\* C3 happens: a seek past the last item, then a read that returned None and left
\* the cursor past the end of the file
C3_Witness ==
  /\ Readable(tf[1])
  /\ last.op = "read" /\ last.err = "" /\ last.ret = <<>>
  /\ tf[1].pos > Len(disk)
  /\ itemcount(tf[1], disk) >= 1

\* the items of the file in order, as a reader with the handle's layout reads them
ItemsIn(h, bytes) ==
  [i \in 1..((Len(bytes) - h.itemareastart) \div h.itemsize) |->
     ItemAt(h, bytes, PositionOf(h, i - 1))]

\* the file's bytes before the item area
HeaderOf(h, bytes) == Slice(bytes, 0, h.itemareastart)

\* a handle from openwrite that has not seeked
Appending(h) == h.state = "open" /\ h.mode = "r+b" /\ ~h.moved

\* C4: openwrite leaves the cursor at the end of the file, which is the position
\* after the last existing item; every write through such a handle that has not
\* seeked adds its item behind all items of the file and changes no other item;
\* close leaves on disk exactly the items the handle saw; and a reader opened
\* afterwards reads the file with the same layout, so it sees the old items in
\* their order followed by the appended ones in write order.
C4_Append ==
  [][ /\ (last'.op = "openwrite" /\ last'.err = "")
         => /\ tf'[1].pos = Len(disk')
            /\ tf'[1].pos = PositionOf(tf'[1], itemcount(tf'[1], disk'))
            /\ disk' = disk
      /\ (last'.op = "write" /\ last'.err = "" /\ Appending(tf[1]))
         => LET before == ItemsIn(tf[1], FileView(tf[1], disk))
                after == ItemsIn(tf'[1], FileView(tf'[1], disk'))
            IN /\ Len(after) = Len(before) + 1
               /\ \A i \in 1..Len(before) : after[i] = before[i]
               /\ ItemEq(after[Len(after)], last'.item[1])
               /\ HeaderOf(tf'[1], FileView(tf'[1], disk'))
                    = HeaderOf(tf[1], FileView(tf[1], disk))
      /\ (last'.op \in {"close", "flush"} /\ Appending(tf[1]))
         => disk' = FileView(tf[1], disk)
      /\ (last'.op = "openread" /\ last'.err = "" /\ tf[1].mode = "r+b")
         => /\ ItemsIn(tf'[1], disk') = ItemsIn(tf[1], disk)
            /\ tf'[1].pos = tf'[1].itemareastart
    ]_vars

\* C4 happens: a handle from openwrite on a file that held an item has written one
\* item without seeking
C4_Witness ==
  /\ Appending(tf[1])
  /\ last.op = "write" /\ last.err = ""
  /\ tf[1].nw = 1
  /\ Len(ItemsIn(tf[1], FileView(tf[1], disk))) = 2

\* a handle that can write: from create or openwrite, and open
Writable(h) == h.state = "open" /\ h.haswrite /\ h.mode \in {"wb", "r+b"}

\* C5: a write through a writable handle whose cursor is at the start of item i,
\* 0 <= i < the number of items in the file, as it is after seekitem(i), puts the
\* written item in place of item i and leaves the number of items, every other
\* item and the header bytes as they were; itemcount after the next flush is the
\* itemcount before the write.
C5_Overwrite ==
  [][ (/\ last'.op = "write" /\ last'.err = "" /\ Writable(tf[1])
       /\ tf[1].pos = PositionOf(tf[1], IndexAt(tf[1], tf[1].pos))
       /\ IndexAt(tf[1], tf[1].pos) >= 0
       /\ IndexAt(tf[1], tf[1].pos) < Len(ItemsIn(tf[1], FileView(tf[1], disk))))
      => LET i == IndexAt(tf[1], tf[1].pos)
             before == ItemsIn(tf[1], FileView(tf[1], disk))
             after == ItemsIn(tf'[1], FileView(tf'[1], disk'))
             flushed == flush(tf'[1], disk')
         IN /\ Len(after) = Len(before)
            /\ \A j \in 1..Len(before) : j # i + 1 => after[j] = before[j]
            /\ ItemEq(after[i + 1], last'.item[1])
            /\ HeaderOf(tf'[1], FileView(tf'[1], disk'))
                 = HeaderOf(tf[1], FileView(tf[1], disk))
            /\ Len(FileView(tf'[1], disk')) = Len(FileView(tf[1], disk))
            /\ itemcount(flushed.h, flushed.disk) = Len(before)
    ]_vars

\* C5 happens: after a seek to the first of two items a writable handle wrote an
\* item over it, with a value other than the one that was there
C5_Witness ==
  /\ Writable(tf[1]) /\ tf[1].moved
  /\ last.op = "write" /\ last.err = ""
  /\ tf[1].wbuf # <<>>
  /\ tf[1].pos = PositionOf(tf[1], 1)
  /\ itemcount(tf[1], disk) = 2
  /\ ItemAt(tf[1], disk, PositionOf(tf[1], 0))
       # ItemAt(tf[1], FileView(tf[1], disk), PositionOf(tf[1], 0))

\* a step of generator g that nothing else on the handle came between: its first
\* step, or a later step with the cursor where its last step left it
Undisturbed(g) ==
  \/ gens[g].state = "new"
  \/ gens[g].state = "running" /\ gens[g].clean

\* the index the next step of generator g is about
NextIndex(g) == IF gens[g].state = "new" THEN gens[g].start ELSE gens[g].current + 1

\* the end of the range items(start, end) was called for: end, or itemcount when
\* end was left out (for a sequence in progress, the end its first step bound)
RangeEnd(g) ==
  IF gens[g].hasend THEN gens[g].end
  ELSE Len(ItemsIn(tf[1], FileView(tf[1], disk)))

\* what the claim says about one step of tf[1].items(start, end) for
\* 0 <= start <= end <= itemcount, with ends drawn from Ends: the step yields the
\* item with the next index while that index is below end, and ends the sequence
\* when it is not
ItemsYieldsRange(Ends) ==
      (/\ last'.op = "next" /\ Readable(tf[1]) /\ Undisturbed(1)
       /\ gens[1].hasend => gens[1].end \in Ends
       /\ gens[1].start <= RangeEnd(1)
       /\ RangeEnd(1) <= Len(ItemsIn(tf[1], FileView(tf[1], disk))))
      => IF NextIndex(1) < RangeEnd(1)
         THEN /\ last'.err = ""
              /\ last'.ret = << ItemAt(tf[1], FileView(tf[1], disk),
                                       PositionOf(tf[1], NextIndex(1))) >>
         ELSE last'.err = "StopIteration"

\* C6: items(start, end), consumed to exhaustion, yields the items with the indexes
\* start, ..., end - 1 in order and then ends, for all 0 <= start <= end <=
\* itemcount, end = 0 included, and with end left out it yields the items from
\* start to the last.
C6_ItemsRange == [][ItemsYieldsRange(0..MaxItems)]_vars

\* what a read at file position pos gives: the item there, or None at the end
ReadAt(h, bytes, pos) ==
  IF pos >= Len(bytes) THEN <<>> ELSE << ItemAt(h, bytes, pos) >>

\* C7: the first step of a sequence from items(start, end) depends on start, end
\* and the file only: it yields what is stored at index start (or ends the
\* sequence when start is not below the end the code settles on), wherever the
\* cursor was and whatever became of sequences made before it; each later step
\* that nothing came between yields what is stored at the next index. A step of a
\* sequence in progress reads at the handle's cursor: it yields what is stored
\* where the cursor is, not what is stored at its own next index.
C7_Restartable ==
  [][ (last'.op = "next" /\ Readable(tf[1]))
      => LET view == FileView(tf[1], disk)
             stop == IF gens[1].state = "new"
                     THEN (IF ~gens[1].hasend \/ gens[1].end = 0
                           THEN Len(ItemsIn(tf[1], view)) ELSE gens[1].end)
                     ELSE gens[1].end
         IN /\ NextIndex(1) >= stop => last'.err = "StopIteration"
            /\ (NextIndex(1) < stop /\ Undisturbed(1))
                 => /\ last'.err = ""
                    /\ last'.ret = ReadAt(tf[1], view, PositionOf(tf[1], NextIndex(1)))
            /\ (NextIndex(1) < stop /\ gens[1].state = "running")
                 => /\ last'.err = ""
                    /\ last'.ret = ReadAt(tf[1], view, tf[1].pos)
    ]_vars

\* C7 happens: a sequence in progress, after a seek or read on its handle, yielded
\* an item that is not the one with its next index
C7_Witness ==
  /\ Readable(tf[1])
  /\ gens[1].state = "running" /\ ~gens[1].clean
  /\ last.op = "next" /\ last.err = "" /\ last.ret # <<>>
  /\ tf[1].pos - tf[1].itemsize # PositionOf(tf[1], gens[1].current)
  /\ last.ret # ReadAt(tf[1], disk, PositionOf(tf[1], gens[1].current))

\* C8: a handle from openread (the one handle whose file is opened "rb") has no
\* write method, a call of write on it raises TypeError, and no call on it (read,
\* write, seekitem, seekend, flush, close, items, a step of a sequence from items)
\* changes a byte of the file.
C8_ReadOnly ==
  /\ [](tf[1].mode = "rb" => ~tf[1].haswrite)
  /\ [][ tf[1].mode = "rb"
         => /\ disk' = disk
            /\ fileexists' = fileexists
            /\ last'.op = "write" => last'.err = "TypeError"
       ]_vars

\* C8 happens: write was called on an open handle from openread of a file with
\* items, and raised
C8_Witness ==
  /\ tf[1].state = "open" /\ tf[1].mode = "rb"
  /\ last.op = "write" /\ last.err = "TypeError"
  /\ itemcount(tf[1], disk) >= 1

\* C9 as stated: on a closed handle each call of read, write, seekitem, seekend,
\* flush and items fails with the closed error (ValueError: I/O operation on
\* closed file), the file stays as it is and the handle stays closed.
C9_AllCallsFailClosed ==
  [][ tf[1].state = "closed"
      => /\ tf'[1].state = "closed"
         /\ disk' = disk
         /\ last'.op \in {"read", "write", "seekitem", "seekend", "flush", "items"}
              => last'.err = "ValueError"
    ]_vars

\* C9 amended: on a closed handle read, seekitem, seekend and flush raise the
\* closed error; write raises it on a handle from create or openwrite and raises
\* TypeError on a handle from openread, which has no write method; items itself
\* returns a sequence without an error, and the first step of that sequence raises
\* the closed error (a sequence already in progress raises it at its next read);
\* close again does nothing. None of these calls changes the file or the handle,
\* which stays closed.
C9_ClosedCalls ==
  [][ tf[1].state = "closed"
      => /\ tf'[1] = tf[1]
         /\ disk' = disk
         /\ fileexists' = fileexists
         /\ last'.op \in {"read", "seekitem", "seekend", "flush"}
              => last'.err = "ValueError"
         /\ last'.op = "write"
              => last'.err = (IF tf[1].haswrite THEN "ValueError" ELSE "TypeError")
         /\ last'.op = "items" => (last'.err = "" /\ gens'[1].state = "new")
         /\ (last'.op = "next" /\ gens[1].state = "new") => last'.err = "ValueError"
         /\ (last'.op = "next" /\ gens[1].state = "running")
              => last'.err = (IF NextIndex(1) < gens[1].end THEN "ValueError"
                              ELSE "StopIteration")
         /\ last'.op = "close" => last'.err = ""
    ]_vars

\* C9 happens: the first step of a sequence from items raised the closed error on a
\* closed handle that can write
C9_Witness ==
  /\ tf[1].state = "closed" /\ tf[1].haswrite
  /\ last.op = "next" /\ last.err = "ValueError"
  /\ gens[1].state = "done"

\* a step that made a new handle: the one before it moved from tf[1] to tf[2]
Opened == last'.op \in {"create", "openread", "openwrite"} /\ last'.err = ""

\* at close, itemcount of the closed handle is the number of items the handle saw
\* in the file, which for a handle from create that only wrote is its number of
\* writes
CountAtClose ==
  (last'.op = "close" /\ tf[1].state = "open")
  => /\ tf'[1].state = "closed"
     /\ itemcount(tf'[1], disk') = Len(ItemsIn(tf[1], FileView(tf[1], disk)))
     /\ (tf[1].mode = "wb" /\ ~tf[1].moved) => itemcount(tf'[1], disk') = tf[1].nw

CreateArguments == last.item[1]
CreateCalled == last.op = "create"
CreateReturned == last.op = "create" /\ last.err = ""

\* the fields ItemDescription.create makes of the arguments
FieldsOf(a) == ItemDescription_create(a.fieldnames, a.fieldformat).fields

\* natural alignment: the first field at 0, every later field at the smallest
\* multiple of its size that is not before the end of the field before it
NaturallyAligned(fields) ==
  /\ \A i \in 1..Len(fields) : fields[i].offset >= 0
  /\ fields[1].offset = 0
  /\ \A i \in 2..Len(fields) :
       /\ fields[i].offset >= fields[i - 1].offset + getsize(fields[i - 1].fieldtype)
       /\ fields[i].offset % getsize(fields[i].fieldtype) = 0
       /\ fields[i].offset - getsize(fields[i].fieldtype)
            < fields[i - 1].offset + getsize(fields[i - 1].fieldtype)
       /\ fields[i].offset > fields[i - 1].offset

HasFloat(a) == \E k \in 1..Len(a.fieldformat) : a.fieldformat[k] = 102

\* C11: for every list of field types drawn from the 10 scalar types, every field
\* has an offset, the first field is at offset 0 and every later field is at the
\* smallest multiple of its size at or behind the end of the field before it, so
\* that the offsets are strictly increasing, non-overlapping and divisible by the
\* field sizes.
C11_NaturalOffsets ==
  (CreateCalled /\ CreateArguments \in LayoutInputs)
    => NaturallyAligned(FieldsOf(CreateArguments))

\* C11 without Float32: the same for the lists of the 8 integer types and Float64,
\* where create returned
C11_NaturalOffsetsNoFloat ==
  (CreateCalled /\ CreateArguments \in LayoutInputs /\ ~HasFloat(CreateArguments))
    => /\ CreateReturned
       /\ NaturallyAligned(FieldsOf(CreateArguments))
       /\ tf[1].d.itemdescription.fields = FieldsOf(CreateArguments)

\* C11 fails: create was called with a Float32 field, the field got no offset and
\* writing the header raised
C11_FloatWithoutOffset ==
  /\ CreateCalled /\ CreateArguments \in LayoutInputs
  /\ last.err = "struct.error"
  /\ \E i \in 1..Len(FieldsOf(CreateArguments)) :
       /\ FieldsOf(CreateArguments)[i].fieldtype = 9
       /\ FieldsOf(CreateArguments)[i].offset = -1

\* C11 happens without Float32: three fields with a gap before the third
C11_Witness ==
  /\ CreateReturned /\ CreateArguments \in LayoutInputs
  /\ Len(FieldsOf(CreateArguments)) = 3
  /\ FieldsOf(CreateArguments)[2].offset = 2
  /\ FieldsOf(CreateArguments)[3].offset = 8

\* the handle create returned, while it is open
CreateHandle == tf[1].state = "open" /\ tf[1].mode = "wb"

MaxFieldSize(fields) == Max({getsize(fields[i].fieldtype) : i \in 1..Len(fields)})

\* the item size is the end of the last field rounded up to the largest field size
RoundedItemSize(h) ==
  LET fields == h.d.itemdescription.fields
      n == Len(fields)
  IN /\ h.itemsize
          = AlignUp(fields[n].offset + getsize(fields[n].fieldtype), MaxFieldSize(fields))
     /\ h.itemsize % MaxFieldSize(fields) = 0
     /\ \A i \in 1..n : fields[i].offset + getsize(fields[i].fieldtype) <= h.itemsize

\* what write packs an item into: itemsize bytes, zero behind the last field
PacksItemSize(h) ==
  LET fields == h.d.itemdescription.fields
      n == Len(fields)
      packed == StructPack(h.itemstruct, [i \in 1..n |-> 1])
  IN /\ Len(packed) = h.itemsize
     /\ \A k \in 1..Len(packed) :
          k > fields[n].offset + getsize(fields[n].fieldtype) => packed[k] = 0

\* C12: for every layout create accepts, itemsize is the end of the last field
\* rounded up to the largest field size, hence a multiple of it and not less than
\* the end of any field, and write packs every item into exactly itemsize bytes
\* with the trailing padding zero: every write moves the handle by itemsize bytes.
C12_ItemSize ==
  CreateHandle
    => /\ RoundedItemSize(tf[1])
       /\ PacksItemSize(tf[1])
       /\ (tf[1].pos - tf[1].itemareastart) % tf[1].itemsize = 0

\* C12 where the fields are naturally aligned, as they are for every format
\* without a byte order character
C12_ItemSizeNatural ==
  (CreateHandle /\ NaturallyAligned(tf[1].d.itemdescription.fields)) => C12_ItemSize

\* the layouts without a byte order character are naturally aligned
C12_NoByteOrderNatural ==
  (CreateReturned /\ \A k \in 1..Len(CreateArguments.fieldformat) :
                       ~IsByteOrderChar(CreateArguments.fieldformat[k]))
    => NaturallyAligned(tf[1].d.itemdescription.fields)

\* C12 fails: create accepted the format "<hq", itemsize is 16 and write packed
\* the item into 22 bytes
C12_PackedLonger ==
  /\ CreateHandle
  /\ last.op = "write" /\ last.err = ""
  /\ tf[1].itemsize = 16
  /\ tf[1].pos - tf[1].itemareastart = 22
  /\ Len(tf[1].d.itemdescription.fields) = 2
  /\ tf[1].d.itemdescription.fields[2].offset = 2

\* C12 happens: a layout with trailing padding was written to
C12_Witness ==
  /\ CreateHandle
  /\ last.op = "write" /\ last.err = ""
  /\ Len(tf[1].d.itemdescription.fields) = 2
  /\ NaturallyAligned(tf[1].d.itemdescription.fields)
  /\ tf[1].itemsize > tf[1].d.itemdescription.fields[2].offset
                        + getsize(tf[1].d.itemdescription.fields[2].fieldtype)

HasDigit(fmt) == \E k \in 1..Len(fmt) : IsDigit(fmt[k])
HasByteOrderChar(fmt) == \E k \in 1..Len(fmt) : IsByteOrderChar(fmt[k])
OverTypeAlphabet(fmt) == \A k \in 1..Len(fmt) : getfromformatcharacter(fmt[k]) # 0

\* C13: create raises for every format string that holds a digit or one of the
\* byte order characters @ < > = !, and returns only for format strings over the
\* alphabet b h i q B H I Q f d.
C13_FormatValidation ==
  /\ (CreateCalled /\ (HasDigit(CreateArguments.fieldformat)
                         \/ HasByteOrderChar(CreateArguments.fieldformat)))
       => last.err # ""
  /\ CreateReturned => OverTypeAlphabet(CreateArguments.fieldformat)

\* C13 without the byte order characters: create raises for every format string
\* with a digit or with a character that is no type code, before it opens the file
C13_DigitsAndCodesRejected ==
  (CreateCalled /\ (HasDigit(CreateArguments.fieldformat)
                      \/ \E k \in 1..Len(CreateArguments.fieldformat) :
                           /\ ~IsByteOrderChar(CreateArguments.fieldformat[k])
                           /\ getfromformatcharacter(CreateArguments.fieldformat[k]) = 0))
    => /\ last.err \in {"ValueError", "struct.error", "Exception"}
       /\ tf[1].state = "none"
       /\ ~unclosed
       /\ disk \in {<<>>, OldFile}

\* C13 fails: create returned a handle for the format "<h"
C13_PrefixAccepted ==
  /\ CreateReturned
  /\ CreateArguments.fieldformat = <<60, 104>>
  /\ CreateHandle
  /\ Len(disk) = tf[1].itemareastart

\* C13 happens where it holds: the format "h4" and the format "4h" were rejected
C13_Witness ==
  /\ CreateCalled
  /\ CreateArguments.fieldformat \in {<<104, 52>>, <<52, 104>>}
  /\ last.err # ""

\* the names with every character outside [A-Za-z0-9_] dropped
SafeNames(names) == [i \in 1..Len(names) |-> getsafename(names[i])]
\* the item name create derives: the first characters of the field names
DerivedItemName(names) == [i \in 1..Len(names) |-> names[i][1]]

\* a handle from openread or openwrite
OpenedAgain(h) == h.state = "open" /\ h.mode \in {"rb", "r+b"}

\* C14: names are sanitised before they become identifiers of the named tuple, on
\* create as on open, and the raw names are what is persisted: create returns for
\* names with characters outside [A-Za-z0-9_] whose sanitised forms are
\* identifiers, the file holds the raw names, and a reopened handle has the
\* sanitised names as accessor names and the raw names as field names.
C14_NamesSanitized ==
  /\ (CreateCalled /\ CreateArguments \in NameInputs
        /\ namedtupleAccepts(getsafename(DerivedItemName(CreateArguments.fieldnames)),
                             SafeNames(CreateArguments.fieldnames)))
       => /\ CreateReturned
          /\ \A i \in 1..Len(CreateArguments.fieldnames) :
               tf[1].d.itemdescription.fields[i].name = CreateArguments.fieldnames[i]
  /\ OpenedAgain(tf[1])
       => /\ tf[1].d.itemdescription.fieldnames
               = SafeNames([i \in 1..Len(tf[1].d.itemdescription.fields) |->
                              tf[1].d.itemdescription.fields[i].name])
          /\ tf[2].mode = "wb"
               => \A i \in 1..Len(tf[1].d.itemdescription.fields) :
                    tf[1].d.itemdescription.fields[i].name
                      = tf[2].d.itemdescription.fields[i].name

\* C14 fails: create raised ValueError for the field name "A-", whose sanitised
\* form "A" is an identifier, and made no file
C14_RawNameRejected ==
  /\ CreateCalled
  /\ CreateArguments.fieldnames = << <<65, 45>> >>
  /\ last.err = "ValueError"
  /\ tf[1].state = "none"
  /\ disk \in {<<>>, OldFile}

\* create raises for every name with a character outside [A-Za-z0-9_]: the names
\* it accepts are left as they are by the sanitising on open
C14_CreateTakesIdentifiersOnly ==
  CreateReturned
    => \A i \in 1..Len(CreateArguments.fieldnames) :
         /\ getsafename(CreateArguments.fieldnames[i]) = CreateArguments.fieldnames[i]
         /\ IsIdentifier(CreateArguments.fieldnames[i])

\* ------------------------------------------------------------ the header
PersistedItemAreaStart(bytes) == readint64(bytes, 8).v
PersistedSectionCount(bytes) == readint64(bytes, 24).v

\* where the n sections from pos on end: each is its id, its payload size and
\* that many bytes of payload
RECURSIVE SectionsEnd(_, _, _)
SectionsEnd(bytes, pos, n) ==
  IF n = 0 THEN pos
  ELSE SectionsEnd(bytes, pos + 8 + readint32(bytes, pos + 4).v, n - 1)

\* the header of the file is what the handle says: the item area starts at a
\* multiple of 8 behind the 32 bytes of the prefix, the sections and fewer than 8
\* zero bytes, and the file ends there
HeaderEndsAtItemArea(h, dsk) ==
  LET end == SectionsEnd(dsk, HeaderPrefixSize, PersistedSectionCount(dsk))
  IN /\ h.itemareastart % 8 = 0
     /\ h.itemareastart > HeaderPrefixSize
     /\ PersistedItemAreaStart(dsk) = h.itemareastart
     /\ end <= h.itemareastart /\ h.itemareastart - end < 8
     /\ \A k \in (end + 1)..h.itemareastart : dsk[k] = 0
     /\ Len(dsk) = h.itemareastart
     /\ h.pos = h.itemareastart
     /\ h.wbuf = <<>>
     /\ itemcount(h, dsk) = 0

RECURSIVE SectionIds(_, _, _)
SectionIds(bytes, pos, n) ==
  IF n = 0 THEN <<>>
  ELSE <<readint32(bytes, pos).v>>
         \o SectionIds(bytes, pos + 8 + readint32(bytes, pos + 4).v, n - 1)

\* every one of the n sections from pos on has as its size the number of bytes
\* its formatter reads
RECURSIVE SectionSizesExact(_, _, _, _)
SectionSizesExact(bytes, rc, pos, n) ==
  \/ n = 0
  \/ /\ readsection(bytes, [rc EXCEPT !.pos = pos]).ok
     /\ readsection(bytes, [rc EXCEPT !.pos = pos]).pos
          = pos + 8 + readint32(bytes, pos + 4).v
     /\ SectionSizesExact(bytes, readsection(bytes, [rc EXCEPT !.pos = pos]),
                          pos + 8 + readint32(bytes, pos + 4).v, n - 1)

SectionsWritten(a) ==
  <<ItemSectionId>>
    \o (IF a.contentdescription # <<>> THEN <<ContentSectionId>> ELSE <<>>)
    \o (IF a.namevalues # <<>> THEN <<NameValueSectionId>> ELSE <<>>)
    \o <<TimeSectionId>>

ValidFiles ==
  UNION { { CreatedFile(a, <<>>), CreatedFile(a, <<OnesItem(create(a))>>) } :
          a \in Descriptions }

\* the file with a section of the given id and payload put in front of its
\* section k + 1 (behind the last section for k = the section count), the section
\* count and the item area start raised to fit
WithSection(bytes, k, id, payload) ==
  LET n == PersistedSectionCount(bytes)
      at == SectionsEnd(bytes, HeaderPrefixSize, k)
      end == SectionsEnd(bytes, HeaderPrefixSize, n)
      sections == Slice(bytes, HeaderPrefixSize, at - HeaderPrefixSize)
                    \o writeint32(id) \o writeint32(Len(payload)) \o payload
                    \o Slice(bytes, at, end - at)
      start == AlignUp(HeaderPrefixSize + Len(sections), 8)
  IN BOM \o writeint64(start) \o writeint64(0) \o writeint64(n + 1)
       \o sections \o Zeros(start - HeaderPrefixSize - Len(sections))
       \o Slice(bytes, PersistedItemAreaStart(bytes),
                Len(bytes) - PersistedItemAreaStart(bytes))

\* ids no formatter has, payloads of 0, 3 and 8 bytes
UnknownSectionIds == {11, 130}
UnknownPayloads == { <<>>, <<1, 2, 3>>, <<1, 2, 3, 4, 5, 6, 7, 8>> }

EmptyFiles == { CreatedFile(a, <<>>) : a \in Descriptions }

UnknownSectionFiles ==
  UNION { { WithSection(f, k, id, payload) :
              k \in 0..PersistedSectionCount(f),
              id \in UnknownSectionIds, payload \in UnknownPayloads } :
          f \in EmptyFiles }

\* files that do not begin with the byte order mark: one byte of the mark
\* changed, the mark in big-endian order, and files of fewer than 8 bytes
WithByte(bytes, k, b) == [i \in 1..Len(bytes) |-> IF i = k THEN b ELSE bytes[i]]

BadMarkFiles ==
  { WithByte(f, k, 255) : f \in ValidFiles, k \in 1..8 }
    \cup { [i \in 1..Len(f) |-> IF i <= 8 THEN BOM[9 - i] ELSE f[i]] : f \in ValidFiles }
    \cup { Slice(f, 0, n) : f \in ValidFiles, n \in {0, 4, 7} }

InitOpen ==
  /\ fileexists = TRUE
  /\ disk \in ValidFiles \cup UnknownSectionFiles \cup BadMarkFiles
  /\ tf = [s \in Slots |-> NoHandle]
  /\ gens = NoGens
  /\ last = NoCall
  /\ expect = <<>>
  /\ unclosed = FALSE
  /\ USE_TIME_DECORATION = TRUE

NextOpen ==
  \/ OpenRead
  \/ OpenWrite
  \/ Read(1)
  \/ Close(1)
  \/ Collect

SpecOpen == InitOpen /\ [][NextOpen]_vars

OpenCalled == last.op \in {"openread", "openwrite"}

\* C17: a section whose id is none of 0x0A, 0x40, 0x80, 0x81 is skipped by its
\* declared size and reading goes on with the next section: a file that is valid
\* but for such a section opens, with the description of its other sections.
C17_UnknownSectionSkipped ==
  (OpenCalled /\ disk \in UnknownSectionFiles)
    => /\ last.err = ""
       /\ OpenedAgain(tf[1])
       /\ tf[1].itemareastart = PersistedItemAreaStart(disk)
       /\ \E f \in EmptyFiles : tf[1].d = readheader(f).d

\* what the code does on every such file: open raises, whatever the id, the size
\* and the place of the section, and returns no handle
C17_UnknownSectionRaises ==
  (OpenCalled /\ disk \in UnknownSectionFiles)
    => (last.err = "RuntimeError" /\ \A s \in Slots : tf[s].state = "none")

\* C17 fails: openread raised on a file whose unknown section, with 8 bytes of
\* payload, is the last of five sections
C17_RaisedOnUnknownSection ==
  /\ last.op = "openread" /\ last.err = "RuntimeError"
  /\ disk \in UnknownSectionFiles
  /\ PersistedSectionCount(disk) = 5
  /\ SectionIds(disk, HeaderPrefixSize, 5)[5] = 130
  /\ SectionsEnd(disk, HeaderPrefixSize, 5) - SectionsEnd(disk, HeaderPrefixSize, 4) = 16
  /\ tf[1].state = "none"

\* a file that does not begin with the byte order mark
BadMark(bytes) == Len(bytes) < 8 \/ Slice(bytes, 0, 8) # BOM

\* C18: openread and openwrite of a file whose first 8 bytes are not the byte
\* order mark raise, return no handle, leave the file as it is and leave no file
\* object open.
C18_BadMarkReleased ==
  [][(BadMark(disk) /\ last'.op \in {"openread", "openwrite"} /\ last' # last)
       => /\ last'.err # ""
          /\ tf' = tf /\ \A s \in Slots : tf[s].state = "none"
          /\ disk' = disk /\ fileexists' = fileexists
          /\ ~unclosed']_vars

\* C18 but for the file object: the open raises RuntimeError, or struct.error
\* for a file of fewer than 8 bytes, returns no handle and leaves the file as it is
C18_BadMarkRaises ==
  [][(BadMark(disk) /\ last'.op \in {"openread", "openwrite"} /\ last' # last)
       => /\ last'.err = (IF Len(disk) < 8 THEN "struct.error" ELSE "RuntimeError")
          /\ tf' = tf /\ \A s \in Slots : tf[s].state = "none"
          /\ disk' = disk /\ fileexists' = fileexists
          /\ unclosed']_vars

\* C18 fails: openwrite raised on a file with a changed mark, and the file object
\* it opened is still open
C18_FileObjectLeft ==
  /\ last.op = "openwrite" /\ last.err = "RuntimeError"
  /\ Len(disk) >= 8 /\ Slice(disk, 0, 8) # BOM
  /\ unclosed
  /\ tf[1].state = "none"

\* -------------------------------------------------------- round trips
\* tf[1] was opened on the file tf[2] created, nothing written in between
OpenedCreated ==
  /\ OpenCalled /\ last.err = ""
  /\ OpenedAgain(tf[1])
  /\ tf[2].mode = "wb" /\ tf[2].state = "closed"
  /\ Len(disk) = tf[2].itemareastart

FieldsButTimeFlags(fields) ==
  [i \in 1..Len(fields) |->
     [name |-> fields[i].name, fieldtype |-> fields[i].fieldtype, offset |-> fields[i].offset]]

SameButTimeFlags(d, e) ==
  /\ d.itemdescription.itemname = e.itemdescription.itemname
  /\ d.itemdescription.itemsize = e.itemdescription.itemsize
  /\ FieldsButTimeFlags(d.itemdescription.fields) = FieldsButTimeFlags(e.itemdescription.fields)
  /\ d.contentdescription = e.contentdescription
  /\ d.hastimescale /\ e.hastimescale /\ d.timescale = e.timescale

SameTimeFlags(d, e) ==
  \A i \in 1..Len(d.itemdescription.fields) :
    /\ d.itemdescription.fields[i].istime = e.itemdescription.fields[i].istime
    /\ d.itemdescription.fields[i].iseventtime = e.itemdescription.fields[i].iseventtime

\* C19: the description of a handle opened on a created file is the description
\* of the handle create returned: item name, item size, every field's name, type,
\* offset, istime and iseventtime, the content description and the time scale.
C19_DescriptionRoundTrip ==
  OpenedCreated => (SameButTimeFlags(tf[1].d, tf[2].d) /\ SameTimeFlags(tf[1].d, tf[2].d))

\* C19 but for the time flags: the handle from create has them FALSE for every
\* field, the opened handle has istime for the fields named time in any case of
\* letters, and iseventtime for the first of them
C19_RoundTripButTimeFlags ==
  OpenedCreated
    => /\ SameButTimeFlags(tf[1].d, tf[2].d)
       /\ \A i \in 1..Len(tf[1].d.itemdescription.fields) :
            LET f == tf[1].d.itemdescription.fields[i]
                g == tf[2].d.itemdescription.fields[i]
                named == LowerText(f.name) = TimeName
            IN /\ ~g.istime /\ ~g.iseventtime
               /\ f.istime = named
               /\ f.iseventtime
                    = (named /\ \A j \in 1..(i - 1) :
                                  LowerText(tf[1].d.itemdescription.fields[j].name) # TimeName)

\* C19 fails: the field Time is a time field of the opened handle and none of
\* the handle from create
C19_TimeFlagsDiffer ==
  /\ OpenedCreated
  /\ tf[1].d.itemdescription.fields[1].name = <<84, 105, 109, 101>>
  /\ tf[1].d.itemdescription.fields[1].istime
  /\ tf[1].d.itemdescription.fields[1].iseventtime
  /\ ~tf[2].d.itemdescription.fields[1].istime
  /\ ~tf[2].d.itemdescription.fields[1].iseventtime

KindsOf(nvs) == {nvs[i].kind : i \in 1..Len(nvs)}

\* C20: a name/value collection with unique text keys and values that are each an
\* Int32, a Float64, a Text or a UUID is accepted by create, and a handle opened
\* on the file has the same keys with the same values of the same kinds.
C20_NameValuesRoundTrip ==
  /\ (CreateCalled /\ CreateArguments \in DescriptionInputs
        /\ KindsOf(CreateArguments.namevalues) \subseteq {1, 2, 3, 4})
       => CreateReturned
  /\ OpenedCreated => tf[1].d.namevalues = tf[2].d.namevalues

\* C20 without UUID: the same for values that are each an Int32, a Float64 or
\* a Text
C20_RoundTripWithoutUuid ==
  /\ (CreateCalled /\ CreateArguments \in DescriptionInputs
        /\ KindsOf(CreateArguments.namevalues) \subseteq {1, 2, 3})
       => (CreateReturned /\ tf[1].d.namevalues = CreateArguments.namevalues)
  /\ OpenedCreated => tf[1].d.namevalues = tf[2].d.namevalues

\* C20 fails: create raised TypeError for a collection with a UUID, after it had
\* opened the file
C20_UuidRaises ==
  /\ CreateCalled
  /\ 4 \in KindsOf(CreateArguments.namevalues)
  /\ KindsOf(CreateArguments.namevalues) \subseteq {1, 2, 3, 4}
  /\ last.err = "TypeError"
  /\ fileexists /\ disk = <<>>
  /\ tf[1].state = "none"

\* C20 happens without UUID: a float and a text came back from the file
C20_Witness ==
  /\ OpenedCreated
  /\ Len(tf[1].d.namevalues) = 2
  /\ KindsOf(tf[1].d.namevalues) = {2, 3}
  /\ tf[1].d.namevalues = tf[2].d.namevalues

\* ------------------------------------------------------------ decimals
\* the index of the entry "decimals" in a name/value collection, 0 for none
DecimalsEntry(nvs) ==
  IF \E i \in 1..Len(nvs) : nvs[i].key = DecimalsKey
  THEN CHOOSE i \in 1..Len(nvs) : nvs[i].key = DecimalsKey
  ELSE 0

\* C21: a handle opened on a file created with the name/value entry "decimals": d,
\* d any Int32 value, has decimals = d, and a handle opened on a file created
\* without that entry has decimals = -1.
C21_Decimals ==
  OpenedCreated
    => LET nvs == tf[2].d.namevalues
       IN IF DecimalsEntry(nvs) = 0 THEN tf[1].decimals = PyInt(-1)
          ELSE nvs[DecimalsEntry(nvs)].kind = 1
                 => tf[1].decimals = PyInt(nvs[DecimalsEntry(nvs)].n)

\* C21 but for 0: decimals is d for every d other than 0, and -1 for d = 0 as it
\* is without the entry; the handle create returned has -1 whatever d is
C21_DecimalsButZero ==
  /\ OpenedCreated
       => LET nvs == tf[2].d.namevalues
          IN IF DecimalsEntry(nvs) = 0 THEN tf[1].decimals = PyInt(-1)
             ELSE nvs[DecimalsEntry(nvs)].kind = 1
                    => tf[1].decimals
                         = (IF nvs[DecimalsEntry(nvs)].n = 0 THEN PyInt(-1)
                            ELSE PyInt(nvs[DecimalsEntry(nvs)].n))
  /\ CreateReturned => tf[1].decimals = PyInt(-1)

\* C21 fails: the file was created with "decimals": 0 and the opened handle has
\* decimals = -1
C21_ZeroDecimals ==
  /\ OpenedCreated
  /\ DecimalsEntry(tf[2].d.namevalues) # 0
  /\ tf[2].d.namevalues[DecimalsEntry(tf[2].d.namevalues)].kind = 1
  /\ tf[2].d.namevalues[DecimalsEntry(tf[2].d.namevalues)].n = 0
  /\ tf[1].d.namevalues = tf[2].d.namevalues
  /\ tf[1].decimals = PyInt(-1)

\* C21 happens where it holds: decimals 3 behind another entry came back as 3
C21_Witness ==
  /\ OpenedCreated
  /\ Len(tf[2].d.namevalues) = 2
  /\ DecimalsEntry(tf[2].d.namevalues) = 2
  /\ tf[1].decimals = PyInt(3)

\* ------------------------------------------------------------ time fields
\* where the payload of the first section with the given id among the n sections
\* from pos on starts, -1 when there is none
RECURSIVE SectionPayloadStart(_, _, _, _)
SectionPayloadStart(bytes, pos, n, id) ==
  IF n = 0 THEN -1
  ELSE IF readint32(bytes, pos).v = id THEN pos + 8
  ELSE SectionPayloadStart(bytes, pos + 8 + readint32(bytes, pos + 4).v, n - 1, id)

TimeSectionStart(bytes) ==
  SectionPayloadStart(bytes, HeaderPrefixSize, PersistedSectionCount(bytes), TimeSectionId)

\* the time field offsets the Time section of the file lists, behind the epoch
\* and the ticks per day
PersistedTimeFieldOffsets(bytes) ==
  [i \in 1..readint32(bytes, TimeSectionStart(bytes) + 16).v |->
     readint32(bytes, TimeSectionStart(bytes) + 16 + 4 * i).v]

TimeNamed(f) == LowerText(f.name) = TimeName

\* the index of the first field whose name is "time" in any case of letters, 0
\* when there is none
FirstTimeNamed(fields) ==
  IF \E i \in 1..Len(fields) : TimeNamed(fields[i])
  THEN CHOOSE i \in 1..Len(fields) :
         TimeNamed(fields[i]) /\ \A j \in 1..(i - 1) : ~TimeNamed(fields[j])
  ELSE 0

\* C22: the Time section create writes lists at most one time field, the first
\* field whose name is "time" in any case of letters, and none when there is no
\* such field; in a handle opened on the file exactly that field has istime and
\* iseventtime and no other field has either, so at most one field is the
\* event-time field.
C22_SoleTimeField ==
  /\ CreateReturned
       => LET fields == tf[1].d.itemdescription.fields
          IN /\ TimeSectionStart(disk) # -1
             /\ PersistedTimeFieldOffsets(disk)
                  = (IF FirstTimeNamed(fields) = 0 THEN <<>>
                     ELSE << fields[FirstTimeNamed(fields)].offset >>)
  /\ OpenedCreated
       => LET fields == tf[1].d.itemdescription.fields
          IN \A i \in 1..Len(fields) :
               /\ fields[i].istime = (i = FirstTimeNamed(fields))
               /\ fields[i].iseventtime = (i = FirstTimeNamed(fields))

\* what the code does: the Time section lists the offset of every field named
\* "time" in any case of letters, in field order; in the opened handle each of
\* them has istime, and the first of them alone has iseventtime
C22_EveryTimeNamedField ==
  /\ CreateReturned
       => LET fields == tf[1].d.itemdescription.fields
              named == SelectSeq(fields, TimeNamed)
          IN /\ TimeSectionStart(disk) # -1
             /\ PersistedTimeFieldOffsets(disk) = [i \in 1..Len(named) |-> named[i].offset]
  /\ OpenedCreated
       => LET fields == tf[1].d.itemdescription.fields
          IN \A i \in 1..Len(fields) :
               /\ fields[i].istime = TimeNamed(fields[i])
               /\ fields[i].iseventtime = (i = FirstTimeNamed(fields))

\* C22 fails: the fields A, Time, time were created, the Time section lists the
\* offsets 8 and 16, and the opened handle has istime for Time and for time
C22_TwoTimeFields ==
  /\ OpenedCreated
  /\ Len(tf[1].d.itemdescription.fields) = 3
  /\ tf[1].d.itemdescription.fields[2].name = <<84, 105, 109, 101>>
  /\ tf[1].d.itemdescription.fields[3].name = <<116, 105, 109, 101>>
  /\ PersistedTimeFieldOffsets(disk) = <<8, 16>>
  /\ tf[1].d.itemdescription.fields[2].istime /\ tf[1].d.itemdescription.fields[2].iseventtime
  /\ tf[1].d.itemdescription.fields[3].istime /\ ~tf[1].d.itemdescription.fields[3].iseventtime

\* C22 happens where it holds: one field named TIME behind a field A
C22_Witness ==
  /\ OpenedCreated
  /\ Len(tf[1].d.itemdescription.fields) = 2
  /\ tf[1].d.itemdescription.fields[2].name = <<84, 73, 77, 69>>
  /\ PersistedTimeFieldOffsets(disk) = <<8>>
  /\ ~tf[1].d.itemdescription.fields[1].istime
  /\ tf[1].d.itemdescription.fields[2].istime /\ tf[1].d.itemdescription.fields[2].iseventtime

\* ------------------------------------------------------ time decoration
\* teafile.USE_TIME_DECORATION = b, an assignment to the module's global
SetTimeDecoration(b) ==
  /\ b # USE_TIME_DECORATION
  /\ USE_TIME_DECORATION' = b
  /\ last' = Call("USE_TIME_DECORATION", 0, 0, "", <<>>, 0, <<>>)
  /\ UNCHANGED <<fileexists, disk, tf, gens, expect, unclosed>>

\* sessions on the file as in Spec, with the option set on or off at any time,
\* and write called with the right number of values, one fewer and one more
NextTime ==
  \/ \E b \in BOOLEAN : SetTimeDecoration(b)
  \/ \E a \in Descriptions : Create(a)
  \/ OpenRead
  \/ OpenWrite
  \/ \E item \in WriteInputs(tf[1]) \cup ArityInputs(tf[1]) : Write(1, item)
  \/ Read(1)
  \/ \E k \in 0..MaxItems : SeekItem(1, k)
  \/ Close(1)

SpecTime == Init /\ [][NextTime]_vars

\* the bytes of the item at file position pos are the integers of the item
\* passed to write (for a DateTime its ticks) as the item struct packs them
HoldsTicks(h, bytes, pos, item) ==
  Slice(bytes, pos, Len(StructPack(h.itemstruct, [i \in 1..Len(item) |-> item[i].n])))
    = StructPack(h.itemstruct, [i \in 1..Len(item) |-> item[i].n])

\* a call of write on tf[1], writable, with a value for every field
FieldwiseWrite ==
  /\ last'.op = "write" /\ Writable(tf[1])
  /\ Len(last'.item[1]) = Len(tf[1].d.itemdescription.fields)

\* C23: the option decides the decoration. With the option on, read returns the
\* time fields as DateTime and write takes ticks or a DateTime for them; with the
\* option off, read returns the ticks of the time fields as integers; with either
\* setting the bytes written for an item are the integer ticks.
C23_TimeDecoration ==
  [][ /\ (last'.op = "read" /\ last'.err = "" /\ last'.ret # <<>>)
         => \A i \in 1..Len(last'.ret[1]) :
              last'.ret[1][i].dt
                = (USE_TIME_DECORATION /\ tf[1].d.itemdescription.fields[i].istime)
      /\ (FieldwiseWrite /\ USE_TIME_DECORATION)
         => last'.err = ""
      /\ (last'.op = "write" /\ last'.err = "")
         => HoldsTicks(tf[1], FileView(tf'[1], disk'), tf[1].pos, last'.item[1])
    ]_vars

\* what the code does: read returns every time field as a DateTime whatever the
\* option is; with the option on, write takes ticks or a DateTime; with the option
\* off, write takes ticks, and a DateTime is left to struct.pack, which raises or
\* packs its ticks; with either setting the bytes written are the integer ticks.
C23_ReadDecoratesAlways ==
  [][ /\ (last'.op = "read" /\ last'.err = "" /\ last'.ret # <<>>)
         => \A i \in 1..Len(last'.ret[1]) :
              last'.ret[1][i].dt = tf[1].d.itemdescription.fields[i].istime
      /\ (FieldwiseWrite
            /\ (USE_TIME_DECORATION \/ \A i \in 1..Len(last'.item[1]) : ~last'.item[1][i].dt))
         => last'.err = ""
      /\ FieldwiseWrite
         => last'.err \in {"", "struct.error"}
      /\ (last'.op = "write" /\ last'.err = "")
         => HoldsTicks(tf[1], FileView(tf'[1], disk'), tf[1].pos, last'.item[1])
    ]_vars

\* C23 fails: with the option off, read returned the field Time as a DateTime
C23_DecoratedWhenOff ==
  /\ ~USE_TIME_DECORATION
  /\ last.op = "read" /\ last.err = "" /\ last.ret # <<>>
  /\ Len(last.ret[1]) = 2
  /\ tf[1].d.itemdescription.fields[1].istime
  /\ last.ret[1][1].dt

\* C23 happens where it holds: with the option on, a DateTime was written and
\* its ticks are the bytes of the field
C23_Witness ==
  /\ USE_TIME_DECORATION
  /\ last.op = "write" /\ last.err = ""
  /\ Len(last.item[1]) = 2 /\ last.item[1][1].dt
  /\ tf[1].wbuf # <<>>
  /\ Slice(FileView(tf[1], disk), tf[1].pos - tf[1].itemsize, 1) = PackInt(last.item[1][1].n, 1)

\* ------------------------------------------------------------ arity
\* a call of write on tf[1] with a number of values that is not the field count
WrongArityWrite ==
  /\ last'.op = "write"
  /\ Len(last'.item[1]) # Len(tf[1].d.itemdescription.fields)

\* C24: write called with a number of values other than the field count raises
\* TypeError and writes nothing: the handle with its cursor and its buffer, the
\* file as the handle sees it and on disk, and itemcount are as before the call.
C24_ArityMismatch ==
  [][ WrongArityWrite
      => /\ last'.err = "TypeError"
         /\ tf' = tf
         /\ tf'[1].pos = tf[1].pos
         /\ disk' = disk /\ fileexists' = fileexists
         /\ FileView(tf'[1], disk') = FileView(tf[1], disk)
         /\ itemcount(tf'[1], disk') = itemcount(tf[1], disk)
    ]_vars

\* C24 happens: an open handle from openwrite, moved to the first of the items
\* of the file, was called with three values for two fields and raised
C24_Witness ==
  /\ Writable(tf[1]) /\ tf[1].mode = "r+b"
  /\ last.op = "write" /\ last.err = "TypeError"
  /\ Len(last.item[1]) = 3 /\ Len(tf[1].d.itemdescription.fields) = 2
  /\ tf[1].pos = PositionOf(tf[1], 0)
  /\ itemcount(tf[1], disk) >= 1

\* ------------------------------------------------------ truncated headers
\* headers that end in a text: the files of create with a Content section of
\* the text "cd" behind their last section
ContentLastFiles ==
  { WithSection(f, PersistedSectionCount(f), ContentSectionId, writetext(<<99, 100>>)) :
      f \in EmptyFiles }

HeaderFiles == EmptyFiles \cup ContentLastFiles

\* every file that ends inside the header of one of these
TruncatedFiles ==
  UNION { { Slice(f, 0, n) : n \in 0..(PersistedItemAreaStart(f) - 1) } : f \in HeaderFiles }

InitTruncated ==
  /\ fileexists = TRUE
  /\ disk \in HeaderFiles \cup TruncatedFiles
  /\ tf = [s \in Slots |-> NoHandle]
  /\ gens = NoGens
  /\ last = NoCall
  /\ expect = <<>>
  /\ unclosed = FALSE
  /\ USE_TIME_DECORATION = TRUE

SpecTruncated == InitTruncated /\ [][NextOpen]_vars

OpenReturnedHandle == OpenCalled /\ last.err = "" /\ tf[1].state = "open"

\* C25: when a read made while the header is parsed gets fewer bytes than it
\* asked for because the file ends, open raises and returns no handle: no file
\* that ends inside its header opens.
C25_TruncatedHeader ==
  (OpenCalled /\ disk \in TruncatedFiles)
    => /\ last.err # ""
       /\ \A s \in Slots : tf[s].state = "none"

\* what the code keeps of C25: open of a file that ends inside its header raises
\* struct.error or ValueError, or returns a handle whose item area starts behind
\* the end of the file, the reads of readbytes and skipbytes having come back
\* short without an exception
C25_RaisesOrStartsBeyondEnd ==
  (OpenCalled /\ disk \in TruncatedFiles)
    => \/ /\ last.err \in {"struct.error", "ValueError"}
          /\ \A s \in Slots : tf[s].state = "none"
       \/ /\ OpenReturnedHandle
          /\ tf[1].itemareastart > Len(disk)

\* open returned a handle whose content description is the "c" left of "cd"
C25_ShortenedText ==
  /\ OpenReturnedHandle
  /\ disk \in TruncatedFiles
  /\ tf[1].d.contentdescription = <<99>>
  /\ \E f \in ContentLastFiles :
       /\ disk = Slice(f, 0, Len(disk))
       /\ readheader(f).d.contentdescription = <<99, 100>>

\* open of a file that ends inside a fixed-width integer raised
C25_Witness ==
  /\ OpenCalled
  /\ disk \in TruncatedFiles
  /\ Len(disk) = HeaderPrefixSize + 2
  /\ last.err = "struct.error"
  /\ tf[1].state = "none"

\* ------------------------------------------------------ preallocated item area
\* the file with the item area end e in its header
WithItemAreaEnd(bytes, e) == Splice(bytes, 16, writeint64(e))

FullFiles ==
  { CreatedFile(a, [i \in 1..MaxItems |-> OnesItem(create(a))]) : a \in Descriptions }

\* files of MaxItems items whose header ends the item area behind k of them
PreallocatedFiles ==
  { WithItemAreaEnd(f, PersistedItemAreaStart(f) + k * readheader(f).d.itemdescription.itemsize) :
      f \in FullFiles, k \in 0..MaxItems }

InitPreallocated ==
  /\ fileexists = TRUE
  /\ disk \in PreallocatedFiles
  /\ tf = [s \in Slots |-> NoHandle]
  /\ gens = NoGens
  /\ last = NoCall
  /\ expect = <<>>
  /\ unclosed = FALSE
  /\ USE_TIME_DECORATION = TRUE

NextPreallocated ==
  \/ OpenRead
  \/ OpenWrite
  \/ Read(1)
  \/ \E k \in 0..MaxItems : SeekItem(1, k)
  \/ SeekEnd(1)
  \/ Close(1)

SpecPreallocated == InitPreallocated /\ [][NextPreallocated]_vars

Preallocated(h) == h.state = "open" /\ h.itemareaend # 0

\* C26: with a persisted item area end that is not zero the items are those in
\* [itemareastart, itemareaend): itemcount is (itemareaend - itemareastart) /
\* itemsize, read returns None once the cursor has reached itemareaend, and
\* seekend puts the cursor at itemareastart + itemcount * itemsize, also when the
\* file is longer.
C26_PreallocatedArea ==
  [][ Preallocated(tf[1])
      => /\ itemcount(tf[1], disk)
              = (tf[1].itemareaend - tf[1].itemareastart) \div tf[1].itemsize
         /\ (last'.op = "read" /\ tf[1].pos >= tf[1].itemareaend)
              => (last'.err = "" /\ last'.ret = <<>>)
         /\ last'.op = "seekend"
              => tf'[1].pos = PositionOf(tf[1], itemcount(tf[1], disk))
    ]_vars

\* what the code keeps of C26: the item count comes from the persisted item area
\* end; read and seekend go by the end of the file
C26_CountOnly ==
  [][ Preallocated(tf[1])
      => /\ itemcount(tf[1], disk)
              = (tf[1].itemareaend - tf[1].itemareastart) \div tf[1].itemsize
         /\ (last'.op = "read" /\ tf[1].pos >= Len(disk))
              => (last'.err = "" /\ last'.ret = <<>>)
         /\ last'.op = "seekend" => tf'[1].pos = Len(disk)
    ]_vars

\* read returned an item from behind the item area end
C26_ReadBehindEnd ==
  /\ Preallocated(tf[1])
  /\ last.op = "read" /\ last.ret # <<>>
  /\ tf[1].pos - tf[1].itemsize >= tf[1].itemareaend
  /\ Len(disk) > tf[1].itemareaend

\* seekend left the cursor behind the item area end
C26_SeekEndBehindEnd ==
  /\ Preallocated(tf[1])
  /\ last.op = "seekend" /\ last.err = ""
  /\ tf[1].pos > tf[1].itemareaend
  /\ itemcount(tf[1], disk) = 1

\* ------------------------------------------------------ section framing
\* the file whose section j declares, and holds, the bytes of slack behind what
\* its formatter reads; the item area start raised to fit
WithSlack(bytes, j, slack) ==
  LET n == PersistedSectionCount(bytes)
      begin == SectionsEnd(bytes, HeaderPrefixSize, j - 1)
      at == SectionsEnd(bytes, HeaderPrefixSize, j)
      end == SectionsEnd(bytes, HeaderPrefixSize, n)
      sections == Slice(bytes, HeaderPrefixSize, begin - HeaderPrefixSize)
                    \o Slice(bytes, begin, 4)
                    \o writeint32(readint32(bytes, begin + 4).v + Len(slack))
                    \o Slice(bytes, begin + 8, at - begin - 8) \o slack
                    \o Slice(bytes, at, end - at)
      start == AlignUp(HeaderPrefixSize + Len(sections), 8)
  IN BOM \o writeint64(start) \o writeint64(0) \o writeint64(n)
       \o sections \o Zeros(start - HeaderPrefixSize - Len(sections))
       \o Slice(bytes, PersistedItemAreaStart(bytes),
                Len(bytes) - PersistedItemAreaStart(bytes))

\* the file whose section j declares one byte less than its formatter reads
WithShortSize(bytes, j) ==
  Splice(bytes, SectionsEnd(bytes, HeaderPrefixSize, j - 1) + 4,
         writeint32(readint32(bytes, SectionsEnd(bytes, HeaderPrefixSize, j - 1) + 4).v - 1))

Slacks == { <<0, 0, 0>>, <<1, 2, 3, 4, 5, 6, 7, 8>> }

SlackFiles ==
  UNION { { WithSlack(f, j, slack) : j \in 1..PersistedSectionCount(f), slack \in Slacks } :
          f \in ValidFiles }

OverrunFiles ==
  UNION { { WithShortSize(f, j) : j \in 1..PersistedSectionCount(f) } : f \in ValidFiles }

InitFramed ==
  /\ fileexists = TRUE
  /\ disk \in ValidFiles \cup SlackFiles \cup OverrunFiles
  /\ tf = [s \in Slots |-> NoHandle]
  /\ gens = NoGens
  /\ last = NoCall
  /\ expect = <<>>
  /\ unclosed = FALSE
  /\ USE_TIME_DECORATION = TRUE

SpecFramed == InitFramed /\ [][NextOpen]_vars

\* the read context after the first k sections of the file
AfterSections(bytes, k) ==
  readsections(bytes, Succeeded(HeaderPrefixSize, NoDescription), k)

\* C27: after readsection has read a section of a known kind the reader is at
\* beforesection + nextsectionoffset, the declared end of the section, also when
\* the formatter read fewer bytes than declared, so that the next section is read
\* from there; a formatter that read more than declared makes open raise.
C27_SectionFraming ==
  /\ (OpenCalled /\ disk \in SlackFiles)
       => /\ \A k \in 1..PersistedSectionCount(disk) :
               /\ AfterSections(disk, k).ok
               /\ AfterSections(disk, k).pos = SectionsEnd(disk, HeaderPrefixSize, k)
          /\ last.err = ""
          /\ tf[1].state = "open"
  /\ (OpenCalled /\ disk \in OverrunFiles)
       => /\ last.err # ""
          /\ \A s \in Slots : tf[s].state = "none"

\* what the code keeps of C27: readsection leaves the reader where the formatter
\* stopped. Slack in a section makes the next section be read from the slack,
\* and open raises; slack in the last section is skipped with the padding, and
\* open returns the handle. A formatter that read more than declared makes open
\* raise RuntimeError.
C27_ReaderStaysWhereFormatterStopped ==
  /\ (OpenCalled /\ disk \in SlackFiles)
       => \E f \in ValidFiles : \E j \in 1..PersistedSectionCount(f) : \E slack \in Slacks :
            /\ disk = WithSlack(f, j, slack)
            /\ AfterSections(disk, j).ok
            /\ AfterSections(disk, j).pos
                 = SectionsEnd(disk, HeaderPrefixSize, j) - Len(slack)
            /\ IF j = PersistedSectionCount(f)
               THEN /\ last.err = ""
                    /\ tf[1].state = "open"
                    /\ tf[1].d = readheader(f).d
                    /\ tf[1].itemareastart = PersistedItemAreaStart(disk)
               ELSE /\ last.err \in {"RuntimeError", "struct.error"}
                    /\ \A s \in Slots : tf[s].state = "none"
  /\ (OpenCalled /\ disk \in OverrunFiles)
       => /\ last.err = "RuntimeError"
          /\ \A s \in Slots : tf[s].state = "none"

\* open raised on a file whose first section holds three bytes of slack
C27_RaisedOnSlack ==
  /\ OpenCalled
  /\ \E f \in ValidFiles : disk = WithSlack(f, 1, <<0, 0, 0>>)
  /\ last.err # ""
  /\ AfterSections(disk, 1).ok
  /\ AfterSections(disk, 1).pos < SectionsEnd(disk, HeaderPrefixSize, 1)

\* open raised on a file whose Content section declares less than its text
C27_Witness ==
  /\ OpenCalled
  /\ \E f \in ValidFiles : PersistedSectionCount(f) = 4 /\ disk = WithShortSize(f, 2)
  /\ last.err = "RuntimeError"
  /\ tf[1].state = "none"

\* ------------------------------------------------------ the header on disk
\* item indexes before the item area: seekitem takes any integer
HeaderSeeks == {-1}

NextHeader ==
  \/ \E a \in Descriptions : Create(a)
  \/ OpenRead
  \/ OpenWrite
  \/ \E item \in WriteInputs(tf[1]) : Write(1, item)
  \/ Read(1)
  \/ \E k \in (0..MaxItems) \cup HeaderSeeks : SeekItem(1, k)
  \/ SeekEnd(1)
  \/ Flush(1)
  \/ Close(1)

SpecHeader == Init /\ [][NextHeader]_vars

\* the bytes [0, itemareastart) of the file as the handle sees it
HeaderBytes(h, dsk) == Slice(FileView(h, dsk), 0, h.itemareastart)

\* a call of write, seekitem, seekend, read, flush or close on the handle of
\* create or openwrite
HandleCall ==
  /\ Writable(tf[1])
  /\ last' # last
  /\ last'.op \in {"write", "seekitem", "seekend", "read", "flush", "close"}

\* C28: write, seekitem with any index, seekend, read, flush and close on a
\* handle from create or openwrite never change the bytes [0, itemareastart) of
\* the file, and a later open parses the description written at creation.
C28_HeaderImmutable ==
  [][ /\ HandleCall
        => /\ HeaderBytes(tf'[1], disk') = HeaderBytes(tf[1], disk)
           /\ Slice(disk', 0, tf[1].itemareastart) = Slice(disk, 0, tf[1].itemareastart)
      /\ (last'.op \in {"openread", "openwrite"} /\ last' # last /\ fileexists)
        => /\ last'.err = ""
           /\ \E a \in Descriptions : tf'[1].d = readheader(CreatedFile(a, <<>>)).d
    ]_vars

\* what the code keeps of C28: the header stays as it is under every call but a
\* write with the cursor before the item area, where seekitem puts it for a
\* negative index
C28_HeaderKeptBehindItemAreaStart ==
  [][ (HandleCall /\ (last'.op = "write" => tf[1].pos >= tf[1].itemareastart))
        => HeaderBytes(tf'[1], disk') = HeaderBytes(tf[1], disk)
    ]_vars

\* a file whose time field offset was overwritten by an item does not open
C28_HeaderOverwritten ==
  /\ last.op \in {"openread", "openwrite"} /\ last.err # ""
  /\ fileexists
  /\ Len(disk) >= 8 /\ Slice(disk, 0, 8) = BOM
  /\ \E a \in Descriptions :
       /\ Len(disk) >= Len(CreatedFile(a, <<>>))
       /\ Slice(disk, 0, Len(CreatedFile(a, <<>>))) # CreatedFile(a, <<>>)
       /\ Slice(disk, 0, Len(CreatedFile(a, <<>>)) - 4)
            = Slice(CreatedFile(a, <<>>), 0, Len(CreatedFile(a, <<>>)) - 4)

\* a write behind the item area start, with the header as it was
C28_Witness ==
  /\ Writable(tf[1]) /\ tf[1].mode = "r+b"
  /\ last.op = "write" /\ last.err = ""
  /\ tf[1].wbuf # <<>>
  /\ tf[1].pos - Len(tf[1].wbuf) >= tf[1].itemareastart
  /\ \E a \in Descriptions : HeaderBytes(tf[1], disk) = CreatedFile(a, <<>>)

\* ------------------------------------------------------ layouts of other writers
\* the item description of create(a) with another item size and other offsets
WithLayout(id, itemsize, offsets) ==
  [id EXCEPT !.itemsize = itemsize,
             !.fields = [i \in 1..Len(id.fields) |-> [id.fields[i] EXCEPT !.offset = offsets[i]]]]

\* an item of the layout: every value at the offset of its field
RECURSIVE LaidOut(_, _, _, _)
LaidOut(id, values, i, bytes) ==
  IF i > Len(id.fields) THEN bytes
  ELSE LaidOut(id, values, i + 1,
               Splice(bytes, id.fields[i].offset,
                      PackInt(values[i], getsize(id.fields[i].fieldtype))))

LaidOutItem(id, k) ==
  LaidOut(id, [i \in 1..Len(id.fields) |-> 10 * k + i], 1, Zeros(id.itemsize))

\* the header of create(a) with the layout in its Item section, and MaxItems items
LayoutFile(a, itemsize, offsets) ==
  writeheader([CreateDescription(a) EXCEPT
                 !.itemdescription = WithLayout(@, itemsize, offsets)]).bytes
    \o Concat([k \in 1..MaxItems |->
                 LaidOutItem(WithLayout(CreateDescription(a).itemdescription, itemsize, offsets), k)])

\* the layouts of struct, and layouts of writers that pack or align otherwise:
\* for "h" 2 bytes, or 4 with padding; for "bh" 4 bytes with h at 2, 3 bytes with
\* h at 1, 8 bytes with h at 4
Layouts(a) ==
  IF Len(a.fieldnames) = 1 THEN { <<2, <<0>> >>, <<4, <<0>> >> }
  ELSE { <<4, <<0, 2>> >>, <<3, <<0, 1>> >>, <<8, <<0, 4>> >> }

LayoutFiles ==
  UNION { { LayoutFile(a, l[1], l[2]) : l \in Layouts(a) } : a \in Descriptions }

InitLayout ==
  /\ fileexists = TRUE
  /\ disk \in LayoutFiles
  /\ tf = [s \in Slots |-> NoHandle]
  /\ gens = NoGens
  /\ last = NoCall
  /\ expect = <<>>
  /\ unclosed = FALSE
  /\ USE_TIME_DECORATION = TRUE

NextLayout ==
  \/ OpenRead
  \/ OpenWrite
  \/ \E item \in WriteInputs(tf[1]) : Write(1, item)
  \/ Read(1)
  \/ \E k \in 0..MaxItems : SeekItem(1, k)
  \/ SeekEnd(1)
  \/ Close(1)

SpecLayout == InitLayout /\ [][NextLayout]_vars

\* the item size in the Item section, the first section of these files
PersistedItemSize(bytes) == readint32(bytes, HeaderPrefixSize + 8).v

\* the values of the item at position pos, each read at the offset of its field
DecodedAtOffsets(h, bytes, pos) ==
  [i \in 1..Len(h.d.itemdescription.fields) |->
     UnpackSigned(Slice(bytes, pos + h.d.itemdescription.fields[i].offset,
                        getsize(h.d.itemdescription.fields[i].fieldtype)))]

\* C29: the handle open returns works with the item size persisted in the Item
\* section: it is the handle's itemsize, itemcount divides the item area by it,
\* seekitem(k) moves k of it behind the item area start, and read returns every
\* field as stored at its persisted offset.
C29_LayoutFromFile ==
  [][ (tf[1].state = "open" /\ tf'[1].state = "open")
      => /\ tf[1].itemsize = PersistedItemSize(disk)
         /\ itemcount(tf[1], disk)
              = (Len(disk) - tf[1].itemareastart) \div PersistedItemSize(disk)
         /\ (last'.op = "seekitem" /\ last' # last)
              => tf'[1].pos = tf[1].itemareastart + last'.k * PersistedItemSize(disk)
         /\ (last'.op = "read" /\ last' # last
               /\ tf[1].pos + PersistedItemSize(disk) <= Len(FileView(tf[1], disk)))
              => /\ last'.err = "" /\ Len(last'.ret) = 1
                 /\ Len(last'.ret[1]) = Len(tf[1].d.itemdescription.fields)
                 /\ \A i \in 1..Len(tf[1].d.itemdescription.fields) :
                      last'.ret[1][i].n
                        = DecodedAtOffsets(tf[1], FileView(tf[1], disk), tf[1].pos)[i]
                 /\ tf'[1].pos = tf[1].pos + PersistedItemSize(disk)
    ]_vars

\* the layout struct gives the field types of the handle
LayoutOfTypes(h) ==
  adjustitemstructforpadding(
    Struct([i \in 1..Len(h.d.itemdescription.fields) |-> h.d.itemdescription.fields[i].fieldtype],
           0, "@"))

\* what the code keeps of C29: the fields keep their persisted offsets, but the
\* handle's item size and item struct are those struct computes from the field
\* types, which is what itemcount, seekitem and read go by
C29_LayoutFromTypes ==
  [][ (tf[1].state = "open" /\ tf'[1].state = "open")
      => /\ tf[1].itemsize = StructSize(LayoutOfTypes(tf[1]))
         /\ tf[1].itemstruct = LayoutOfTypes(tf[1])
         /\ itemcount(tf[1], disk)
              = (Len(disk) - tf[1].itemareastart) \div StructSize(LayoutOfTypes(tf[1]))
         /\ (last'.op = "seekitem" /\ last' # last)
              => tf'[1].pos = tf[1].itemareastart + last'.k * StructSize(LayoutOfTypes(tf[1]))
         /\ (last'.op = "read" /\ last' # last /\ last'.ret # <<>>)
              => \A i \in 1..Len(tf[1].d.itemdescription.fields) :
                   last'.ret[1][i].n
                     = StructUnpack(LayoutOfTypes(tf[1]),
                                    Slice(FileView(tf[1], disk), tf[1].pos,
                                          StructSize(LayoutOfTypes(tf[1]))))[i]
    ]_vars

\* read returned a value other than the one at the persisted offset of the field
C29_DecodedElsewhere ==
  /\ tf[1].state = "open"
  /\ last.op = "read" /\ last.err = "" /\ last.ret # <<>>
  /\ tf[1].itemsize # PersistedItemSize(disk)
  /\ tf[1].pos = tf[1].itemareastart + tf[1].itemsize
  /\ \E i \in 1..Len(tf[1].d.itemdescription.fields) :
       last.ret[1][i].n # DecodedAtOffsets(tf[1], disk, tf[1].itemareastart)[i]

\* a file with the layout of struct: the handle's item size is the persisted one
C29_Witness ==
  /\ tf[1].state = "open"
  /\ last.op = "read" /\ last.err = "" /\ last.ret # <<>>
  /\ tf[1].itemsize = PersistedItemSize(disk)
  /\ Len(tf[1].d.itemdescription.fields) = 2
  /\ tf[1].d.itemdescription.fields[2].offset = 2

\* ------------------------------------------------------ create and the path
\* a format that is not a list of type codes, one for every field name: a
\* character that is no type code (a digit, a byte order character, any other),
\* or another number of them than of names; no format stands for "q" per field
InvalidFormat(a) ==
  /\ a.fieldformat # <<>>
  /\ \/ ~OverTypeAlphabet(a.fieldformat)
     \/ Len(a.fieldformat) # Len(a.fieldnames)

CreateStep == last'.op = "create" /\ last' # last

\* the file holds a header and no more: the mark, at least the Item and the Time
\* section, all sections before the item area start, which is the end of the file
CompleteHeader(bytes) ==
  /\ Len(bytes) >= HeaderPrefixSize
  /\ Slice(bytes, 0, 8) = BOM
  /\ PersistedSectionCount(bytes) >= 2
  /\ SectionsEnd(bytes, HeaderPrefixSize, PersistedSectionCount(bytes))
       <= PersistedItemAreaStart(bytes)
  /\ PersistedItemAreaStart(bytes) = Len(bytes)

\* C30: create validates before it touches the file system. A create that
\* raises because of an invalid format neither creates nor truncates the file at
\* the path: a file that was there keeps its content. And whenever create
\* returns a handle, the file holds a complete header.
C30_ValidatesFirst ==
  [][ /\ (CreateStep /\ last'.err # "" /\ InvalidFormat(last'.item[1]))
           => fileexists' = fileexists /\ disk' = disk
      /\ (CreateStep /\ last'.err = "")
           => fileexists' /\ CompleteHeader(disk')
    ]_vars

\* what the code keeps of C30: the exceptions of ItemDescription.create are
\* raised before the file is opened; a format with a byte order character that
\* passes it and fails in writeheader has the file created or truncated, empty;
\* a create that returns leaves a complete header
C30_ValidatesFirstButByteOrder ==
  [][ /\ (CreateStep /\ last'.err # "" /\ InvalidFormat(last'.item[1]))
           => \/ /\ ItemDescription_raises(last'.item[1].fieldnames,
                                           last'.item[1].fieldformat) # ""
                 /\ fileexists' = fileexists /\ disk' = disk
              \/ /\ ItemDescription_raises(last'.item[1].fieldnames,
                                           last'.item[1].fieldformat) = ""
                 /\ HasByteOrderChar(last'.item[1].fieldformat)
                 /\ last'.err = "struct.error"
                 /\ fileexists' /\ disk' = <<>>
      /\ (CreateStep /\ last'.err = "")
           => fileexists' /\ CompleteHeader(disk')
    ]_vars

\* create raised on the format ">h" and left an empty file
C30_EmptiedByFailedCreate ==
  /\ CreateCalled /\ last.err # ""
  /\ CreateArguments.fieldformat = <<62, 104>>
  /\ fileexists /\ disk = <<>>

\* create raised on a format with a digit and the file of before is as it was
C30_Witness ==
  /\ CreateCalled /\ last.err = "ValueError"
  /\ HasDigit(CreateArguments.fieldformat)
  /\ fileexists /\ disk = OldFile

====
